---- MODULE Spec2Model ----
(***************************************************************************)
(* Model of the neuromorphic swarm decision engine                         *)
(* (crates/neuromorphic): spiking unit and layer, synaptic link and delay   *)
(* line, STDP rule, the ranking, mission allocation and replanning of the  *)
(* decision system, the agent's decision function, the swarm collective    *)
(* with its flocking rules, and the reward learner and pool.               *)
(*                                                                         *)
(* Numbers.  The code computes in f64.  The model is fixed-point:          *)
(*   membrane potential : integer multiples of 1e-9                        *)
(*   input current      : integer multiples of 1e-3                        *)
(*   time               : integer milliseconds                             *)
(*   synaptic weight    : integer multiples of 1e-8  (WeightUnit per 1.0)  *)
(*   learning rate      : integer multiples of 1e-3                        *)
(*   urgency            : exact, as m * 2^e (see Dyadic)                   *)
(*   latitude, longitude: integer multiples of 1e-3 degree                 *)
(*   velocity           : integer mm/s;  distance between agents: metres   *)
(*   heading            : integer multiples of 1e-2 degree                 *)
(*   task priority, arousal : integer multiples of 1e-2                    *)
(*   decision potential and task priority of snn_decision : 1e-4           *)
(*   soil moisture : percent;  soil pH : 1e-1;  temperature : degrees C    *)
(*   group cohesion     : integer multiples of 1e-5  (ExpUnit per 1.0)     *)
(*   reward, value estimate : integer multiples of 1e-4 (RewardUnit per 1.0)*)
(*   learning rate, discount factor of a learner : multiples of 1e-3       *)
(* Results are floored to the unit.  The non-finite f64 values that the    *)
(* code itself produces (NEG_INFINITY, and NaN from inf - inf) or accepts  *)
(* (a NaN coordinate of an agent) are kept as tagged values with IEEE-754  *)
(* arithmetic and comparison.                                              *)
(***************************************************************************)
EXTENDS Integers, Sequences, FiniteSets, TLC

VARIABLES
    \* LIFNeuron (snn/neuron.rs)
    membrane_potential,   \* 1e-9 units
    last_spike_time_ms,   \* extended float, ms
    spiked,               \* value returned by the last integrate call
    clock,                \* observer: sum of the dt_ms passed so far
    spike_at,             \* observer: clock of the latest reported spike, -1 if none
    prev_spike_at,        \* observer: clock of the reported spike before that, -1 if none
    test_i,               \* loop counter of test_lif_neuron_spike
    \* STDPLearner (learning/stdp.rs)
    params,               \* STDPParameters
    current_weight,       \* the weight the caller keeps and passes to update_weight
    n_updates,            \* number of update_weight calls made
    kernel_call,          \* last compute_weight_change call: [called, dt, dw, window]
    \* NeuralLayer::synapses (snn/layer.rs, snn/synapse.rs)
    synapses,             \* sequence of Synapse records
    created_excitatory,   \* observer: polarity each synapse was created with
    transmitted,          \* last transmit call: [syn, current], syn = 0 if none
    \* DelayLine (snn/synapse.rs)
    delay_ms,
    current_time_ms,
    events,               \* queue of [time, current]; id and enqueued_at are observers
    n_enqueued,           \* observer: number of enqueue calls made
    delivered,            \* observer: log of released entries, [id, enqueued_at, at]
    last_op,              \* observer: "new", "enqueue" or "deliver"
    total_current,        \* value returned by the last deliver call
    monotone,             \* observer: no deliver call went back in time
    \* SwarmDecisionSystem (swarm/decision.rs) and the collective's agent map
    objectives,           \* Vec<MissionObjective>
    agents,               \* keys of SwarmCollective::agents
    allocation,           \* map returned by the last allocate_agents call
    inserts,              \* observer: the allocation.insert calls of that call, in order
    allocated,            \* observer: allocation is the result for the current
                          \* objectives and agents
    ranking,              \* list returned by the last prioritize_objectives call
    prioritized,          \* observer: prioritize_objectives has been called
    stored_before,        \* observer: objectives as they were when it was called
    \* SwarmCollective (swarm/collective.rs)
    collective_agents,    \* agents: id -> SwarmAgent
    consensus_decision,
    coordination_state,
    coll_op,              \* observer: the operation that produced this state
    n_steps,              \* observer: number of step calls so far
    \* RewardLearner (learning/reward.rs)
    learner,              \* the RewardLearner record
    learner_before,       \* observer: the learner before the last operation
    learner_op,           \* observer: the last operation on the learner
    reward_history,       \* observer: every signal received since creation
    episode_start,        \* observer: Len(reward_history) at the last start_new_episode
    \* SwarmRewardPool (learning/reward.rs)
    individual_learners,  \* agent id -> RewardLearner
    collective_reward,
    pool_before,          \* observer: learners and collective reward before the last call
    pool_op,              \* observer: the last call, with its arguments
    n_pool_rewards,       \* observer: number of reward calls on the pool so far
    \* SwarmDecisionSystem::replan_if_needed (swarm/decision.rs)
    replan_call,          \* observer: the last call: [called, collective, before]
    replan_initial,       \* observer: objectives before the first replan_if_needed call
    n_replans,            \* observer: number of replan_if_needed calls so far
    \* SwarmCollective::local_alignment, local_separation (swarm/collective.rs)
    flock_before,         \* observer: the agents before the last flocking call
    flock_arg,            \* observer: the radius or distance of that call, metres
    n_flock,              \* observer: number of flocking calls so far
    \* NeuralLayer (snn/layer.rs)
    layer_neurons,        \* neurons: id -> [membrane_potential, last_spike_time_ms]
    input_currents,       \* map neuron id -> current
    spike_ids,            \* ids returned by the last step call
    layer_op,             \* observer: the last operation on the layer
    ever_spiked,          \* observer: ids reported by a step since creation or reset
    n_layer_steps,        \* observer: number of step calls so far
    \* SwarmAgent::snn_decision (swarm/agent.rs)
    snn_agent,            \* the agent: [local_sensor_data, snn_state]
    snn_action,           \* action returned by the last snn_decision call, "none" before
    n_decisions           \* observer: number of snn_decision calls so far

neuronVars == <<membrane_potential, last_spike_time_ms, spiked, clock,
                spike_at, prev_spike_at, test_i>>

stdpVars == <<params, current_weight, n_updates, kernel_call>>

synapseVars == <<synapses, created_excitatory, transmitted>>

delayVars == <<delay_ms, current_time_ms, events, n_enqueued, delivered, last_op,
               total_current, monotone>>

allocVars == <<objectives, agents, allocation, inserts, allocated>>

rankVars == <<ranking, prioritized, stored_before>>

collectiveVars ==
    <<collective_agents, consensus_decision, coordination_state, coll_op, n_steps>>

learnerVars ==
    <<learner, learner_before, learner_op, reward_history, episode_start>>

poolVars ==
    <<individual_learners, collective_reward, pool_before, pool_op, n_pool_rewards>>

replanVars == <<replan_call, replan_initial, n_replans>>

flockVars == <<flock_before, flock_arg, n_flock>>

layerVars == <<layer_neurons, input_currents, spike_ids, layer_op, ever_spiked,
               n_layer_steps>>

snnVars == <<snn_agent, snn_action, n_decisions>>

vars ==
    <<neuronVars, stdpVars, synapseVars, delayVars, allocVars, rankVars,
      collectiveVars, learnerVars, poolVars,
      replanVars,
      flockVars,
      layerVars,
      snnVars>>

\* what the operations of one component leave alone
notNeuron ==
    <<stdpVars, synapseVars, delayVars, allocVars, rankVars,
      collectiveVars, learnerVars, poolVars,
      replanVars,
      flockVars,
      layerVars,
      snnVars>>
notStdp ==
    <<neuronVars, synapseVars, delayVars, allocVars, rankVars,
      collectiveVars, learnerVars, poolVars,
      replanVars,
      flockVars,
      layerVars,
      snnVars>>
notSynapse ==
    <<neuronVars, stdpVars, delayVars, allocVars, rankVars,
      collectiveVars, learnerVars, poolVars,
      replanVars,
      flockVars,
      layerVars,
      snnVars>>
notDelay ==
    <<neuronVars, stdpVars, synapseVars, allocVars, rankVars,
      collectiveVars, learnerVars, poolVars,
      replanVars,
      flockVars,
      layerVars,
      snnVars>>
notAlloc ==
    <<neuronVars, stdpVars, synapseVars, delayVars, rankVars,
      collectiveVars, learnerVars, poolVars,
      replanVars,
      flockVars,
      layerVars,
      snnVars>>
notDecision ==
    <<neuronVars, stdpVars, synapseVars, delayVars, collectiveVars,
      learnerVars, poolVars,
      replanVars,
      flockVars,
      layerVars,
      snnVars>>
notCollective ==
    <<neuronVars, stdpVars, synapseVars, delayVars, allocVars, rankVars,
      learnerVars, poolVars,
      replanVars,
      flockVars,
      layerVars,
      snnVars>>
notLearner ==
    <<neuronVars, stdpVars, synapseVars, delayVars, allocVars, rankVars,
      collectiveVars, poolVars,
      replanVars,
      flockVars,
      layerVars,
      snnVars>>
notPool ==
    <<neuronVars, stdpVars, synapseVars, delayVars, allocVars, rankVars,
      collectiveVars, learnerVars,
      replanVars,
      flockVars,
      layerVars,
      snnVars>>

notReplan ==
    <<neuronVars, stdpVars, synapseVars, delayVars, rankVars,
      collectiveVars, learnerVars, poolVars,
      flockVars,
      layerVars,
      snnVars>>

notFlock ==
    <<neuronVars, stdpVars, synapseVars, delayVars, allocVars, rankVars,
      learnerVars, poolVars, replanVars,
      layerVars,
      snnVars>>

notLayer ==
    <<neuronVars, stdpVars, synapseVars, delayVars, allocVars, rankVars,
      collectiveVars, learnerVars, poolVars, replanVars, flockVars,
      snnVars>>

notSnn ==
    <<neuronVars, stdpVars, synapseVars, delayVars, allocVars, rankVars,
      collectiveVars, learnerVars, poolVars, replanVars, flockVars,
      layerVars>>

----------------------------------------------------------------------------
(* f64 values that may be non-finite *)

Fin(n) == [k |-> "fin", v |-> n]
NEG_INFINITY == [k |-> "-inf", v |-> 0]
INFINITY == [k |-> "+inf", v |-> 0]
NaN == [k |-> "nan", v |-> 0]

\* a + b
FAdd(a, b) ==
    IF a.k = "nan" \/ b.k = "nan" THEN NaN
    ELSE IF a.k = "fin" /\ b.k = "fin" THEN Fin(a.v + b.v)
    ELSE IF a.k = "fin" THEN b
    ELSE IF b.k = "fin" THEN a
    ELSE IF a.k = b.k THEN a
    ELSE NaN

FNeg(a) ==
    IF a.k = "fin" THEN Fin(-a.v)
    ELSE IF a.k = "-inf" THEN INFINITY
    ELSE IF a.k = "+inf" THEN NEG_INFINITY
    ELSE NaN

\* a - b
FSub(a, b) == FAdd(a, FNeg(b))

\* a < b  (false whenever an operand is NaN)
FLt(a, b) ==
    IF a.k = "nan" \/ b.k = "nan" THEN FALSE
    ELSE IF a.k = "fin" /\ b.k = "fin" THEN a.v < b.v
    ELSE IF a.k = "-inf" THEN b.k # "-inf"
    ELSE IF a.k = "+inf" THEN FALSE
    ELSE b.k = "+inf"

----------------------------------------------------------------------------
(* LIFNeuron *)

RestPotential == -700000000
Threshold == 200000000
Hyperpolarization == 50000000
LeakDivisor == 10
Capacitance == 20
MsPerSecond == 1000
RefractoryPeriodMs == 2
\* 1e-3 current units in 1e-9 potential units
CurrentToPot == 1000000

MaxClock == 5
Currents == {0, 100, 20000000}
Dts == {1, 2}

\* dv_dt * dt_s, with dv_dt = (-leak_conductance * (V - rest) + I) / 20.0 and
\* dt_s = dt_ms / 1000.0, floored to the potential unit.  The current term is
\* an exact integer, so the floor of the sum is the sum with the floored leak term.
DeltaV(v, input_current_a, dt_ms) ==
    LET driving_force == v - RestPotential
    IN  input_current_a * (CurrentToPot \div (Capacitance * MsPerSecond)) * dt_ms
        + ((-(driving_force * dt_ms)) \div (LeakDivisor * Capacitance * MsPerSecond))

\* The three outcomes of integrate as [v, last, spike]
IntegrateResult(v, last, input_current_a, dt_ms) ==
    LET elapsed == last
        now_ms == FAdd(elapsed, Fin(dt_ms))
        v2 == v + DeltaV(v, input_current_a, dt_ms)
    IN  IF FLt(FSub(now_ms, last), Fin(RefractoryPeriodMs))
        THEN [v |-> RestPotential - Hyperpolarization, last |-> last, spike |-> FALSE]
        ELSE IF v2 > Threshold
        THEN [v |-> RestPotential, last |-> now_ms, spike |-> TRUE]
        ELSE [v |-> v2, last |-> last, spike |-> FALSE]

NeuronNew ==
    /\ membrane_potential = RestPotential
    /\ last_spike_time_ms = NEG_INFINITY
    /\ spiked = FALSE
    /\ clock = 0
    /\ spike_at = -1
    /\ prev_spike_at = -1
    /\ test_i = 0

\* one call integrate(input_current_a, dt_ms), with the observers kept
IntegrateCall(input_current_a, dt_ms) ==
    LET r == IntegrateResult(membrane_potential, last_spike_time_ms,
                             input_current_a, dt_ms)
    IN  /\ membrane_potential' = r.v
        /\ last_spike_time_ms' = r.last
        /\ spiked' = r.spike
        /\ clock' = clock + dt_ms
        /\ spike_at' = IF r.spike THEN clock + dt_ms ELSE spike_at
        /\ prev_spike_at' = IF r.spike THEN spike_at ELSE prev_spike_at

Integrate ==
    \E i \in Currents, dt \in Dts :
        /\ clock + dt <= MaxClock
        /\ IntegrateCall(i, dt)
        /\ UNCHANGED <<test_i, notNeuron>>

----------------------------------------------------------------------------
(* test_lif_neuron_spike: up to 100 calls integrate(0.1, 1.0), stop at a spike *)

TestSteps == 100
TestCurrent == 100
TestDt == 1

TestLoop ==
    /\ test_i < TestSteps
    /\ ~spiked
    /\ IntegrateCall(TestCurrent, TestDt)
    /\ test_i' = test_i + 1
    /\ UNCHANGED notNeuron

TestDone == test_i = TestSteps \/ spiked

----------------------------------------------------------------------------
(* STDPLearner *)

WeightUnit == 100000000
ExpUnit == 100000
\* resolution of the exp table: entry k+1 is floor(ExpUnit * exp(-k / ExpSteps))
ExpSteps == 20
ExpTable ==
    <<100000, 95122, 90483, 86070, 81873, 77880, 74081, 70468, 67032, 63762,
      60653, 57694, 54881, 52204, 49658, 47236, 44932, 42741, 40656, 38674,
      36787, 34993, 33287, 31663, 30119, 28650, 27253, 25924, 24659, 23457,
      22313, 21224, 20189, 19204, 18268, 17377, 16529, 15723, 14956, 14227,
      13533>>

\* ExpUnit * (-(num / den)).exp() for num >= 0, den > 0
ExpNeg(num, den) == ExpTable[((num * ExpSteps) \div den) + 1]

LearningRates == {10, 1000, 2000}
Windows == {10, 20}
TimeConstants == {10, 20}
SpikeTimes == {0, 1, 10, 20, 21}
Weights == {-WeightUnit, -30000000, 0, 50000000, WeightUnit}
MaxUpdates == 2

STDPParameters ==
    [learning_rate : LearningRates, positive_window_ms : Windows,
     negative_window_ms : Windows, time_constant_ms : TimeConstants]

ComputeWeightChange(p, dt_ms) ==
    IF dt_ms > 0
    THEN IF dt_ms < p.positive_window_ms
         THEN p.learning_rate * ExpNeg(dt_ms, p.time_constant_ms)
         ELSE 0
    ELSE IF -dt_ms < p.negative_window_ms
         THEN -(p.learning_rate * ExpNeg(-dt_ms, p.time_constant_ms))
         ELSE 0

Clamp(x, lo, hi) == IF x < lo THEN lo ELSE IF x > hi THEN hi ELSE x

UpdateWeightNoClamp(p, w, t_pre_ms, t_post_ms) ==
    w + ComputeWeightChange(p, t_post_ms - t_pre_ms)

UpdateWeight(p, w, t_pre_ms, t_post_ms) ==
    LET dt == t_post_ms - t_pre_ms
        dw == ComputeWeightChange(p, dt)
        new_weight == w + dw
    IN  Clamp(new_weight, -WeightUnit, WeightUnit)

StdpWindow(dt_ms, p) ==
    IF dt_ms > 0 /\ dt_ms < p.positive_window_ms
    THEN ExpNeg(dt_ms, p.time_constant_ms)
    ELSE IF dt_ms < 0 /\ -dt_ms < p.negative_window_ms
    THEN -ExpNeg(-dt_ms, p.time_constant_ms)
    ELSE 0

NoKernelCall == [called |-> FALSE, dt |-> 0, dw |-> 0, window |-> 0]

StdpIdle ==
    /\ params = [learning_rate |-> 10, positive_window_ms |-> 20,
                 negative_window_ms |-> 20, time_constant_ms |-> 20]
    /\ current_weight = 50000000
    /\ n_updates = 0
    /\ kernel_call = NoKernelCall

\* STDPLearner::new(params) and a weight in [-1, 1] held by the caller
StdpNew ==
    /\ params \in STDPParameters
    /\ current_weight \in Weights
    /\ n_updates = 0
    /\ kernel_call = NoKernelCall

KernelCall(dt) ==
    [called |-> TRUE, dt |-> dt, dw |-> ComputeWeightChange(params, dt),
     window |-> StdpWindow(dt, params)]

\* a direct call compute_weight_change(t_post - t_pre)
ComputeWeightChangeCall ==
    \E t_pre \in SpikeTimes, t_post \in SpikeTimes :
        /\ kernel_call' = KernelCall(t_post - t_pre)
        /\ UNCHANGED <<params, current_weight, n_updates, notStdp>>

\* the caller replaces its weight by update_weight(weight, t_pre, t_post)
UpdateWeightCall ==
    \E t_pre \in SpikeTimes, t_post \in SpikeTimes :
        /\ n_updates < MaxUpdates
        /\ current_weight' = UpdateWeight(params, current_weight, t_pre, t_post)
        /\ n_updates' = n_updates + 1
        /\ kernel_call' = KernelCall(t_post - t_pre)
        /\ UNCHANGED <<params, notStdp>>

----------------------------------------------------------------------------
(* Synapse, and the synapses SNNNetwork::connect_layers adds to a layer *)

SynapseNewWeight == 50000000
ExcitatoryWeight == 50000000
InhibitoryWeight == -30000000
SynapseDelayMs == 1
MaxSynapses == 3

SynapseNew(id, pre, post, excitatory) ==
    [id |-> id, pre_neuron_id |-> pre, post_neuron_id |-> post,
     weight |-> SynapseNewWeight, delay_ms |-> SynapseDelayMs,
     is_excitatory |-> excitatory, trace_pre |-> 0, trace_post |-> 0]

Transmit(syn) ==
    LET sign == IF syn.is_excitatory THEN 1 ELSE -1
    IN  sign * syn.weight

\* neuron ids of a layer made by NeuralLayer::new(_, 2)
LayerNeurons == {0, 1}
LayerSize == Cardinality(LayerNeurons)

\* the (from_id, to_id) pairs in the order of the two nested loops
PairAt(n) == <<(n - 1) \div LayerSize, (n - 1) % LayerSize>>
NumPairs == LayerSize * LayerSize

\* The synapses one connect_layers call builds.  draw[n] is the outcome of the
\* two random draws for pair n: "none" (no connection), "exc" or "inh".
RECURSIVE ConnectFrom(_, _, _)
ConnectFrom(n, synapse_id, draw) ==
    IF n > NumPairs THEN <<>>
    ELSE IF draw[n] = "none" THEN ConnectFrom(n + 1, synapse_id, draw)
    ELSE LET excitatory == (draw[n] = "exc")
             syn == [SynapseNew(synapse_id, PairAt(n)[1], PairAt(n)[2], excitatory)
                       EXCEPT !.weight = IF excitatory THEN ExcitatoryWeight
                                         ELSE InhibitoryWeight]
         IN  <<syn>> \o ConnectFrom(n + 1, synapse_id + 1, draw)

Polarities(syns) == [i \in 1 .. Len(syns) |-> syns[i].is_excitatory]

SynapseIdle ==
    /\ synapses = <<>>
    /\ created_excitatory = <<>>
    /\ transmitted = [syn |-> 0, current |-> 0]

ConnectLayers ==
    \E draw \in [1 .. NumPairs -> {"none", "exc", "inh"}] :
        LET added == ConnectFrom(1, 0, draw)
        IN  /\ Len(synapses) + Len(added) <= MaxSynapses
            /\ synapses' = synapses \o added
            /\ created_excitatory' = created_excitatory \o Polarities(added)
            /\ UNCHANGED <<transmitted, notSynapse>>

\* layer.add_synapse(Synapse::new(id, 1, 2, excitatory))
AddSynapse ==
    \E excitatory \in BOOLEAN :
        LET syn == SynapseNew(Len(synapses), 1, 2, excitatory)
        IN  /\ Len(synapses) < MaxSynapses
            /\ synapses' = Append(synapses, syn)
            /\ created_excitatory' = Append(created_excitatory, excitatory)
            /\ UNCHANGED <<transmitted, notSynapse>>

TransmitCall ==
    \E i \in 1 .. Len(synapses) :
        /\ transmitted' = [syn |-> i, current |-> Transmit(synapses[i])]
        /\ UNCHANGED <<synapses, created_excitatory, notSynapse>>

----------------------------------------------------------------------------
(* DelayLine *)

Delays == {0, 1, 2}
MaxTime == 2
\* deliver times; -1 lies before the clock a new line starts with
DeliverTimes == -1 .. MaxTime
LineCurrents == {1, 3}
MaxEnqueues == 3

\* the delivery time enqueue tags an entry with
TagNow(now, delay) == now

TagTime(now, delay) == now + delay

\* the front-of-queue loop of deliver as [events, released, total]
RECURSIVE DeliverLoop(_, _, _, _)
DeliverLoop(evs, t, released, total) ==
    IF evs # <<>> /\ Head(evs).time <= t
    THEN DeliverLoop(Tail(evs), t, Append(released, Head(evs)), total + Head(evs).current)
    ELSE [events |-> evs, released |-> released, total |-> total]

\* a deliver that releases at most the front entry
DeliverFrontOnly(evs, t) ==
    IF evs # <<>> /\ Head(evs).time <= t
    THEN [events |-> Tail(evs), released |-> <<Head(evs)>>, total |-> Head(evs).current]
    ELSE [events |-> evs, released |-> <<>>, total |-> 0]

DeliverResult(evs, t) == DeliverLoop(evs, t, <<>>, 0)

DelayLineNew(d) ==
    /\ delay_ms = d
    /\ current_time_ms = 0
    /\ events = <<>>
    /\ n_enqueued = 0
    /\ delivered = <<>>
    /\ last_op = "new"
    /\ total_current = 0
    /\ monotone = TRUE

DelayIdle == DelayLineNew(1)

Enqueue ==
    \E current \in LineCurrents :
        /\ n_enqueued < MaxEnqueues
        /\ events' = Append(events,
                            [time |-> TagTime(current_time_ms, delay_ms),
                             current |-> current,
                             id |-> n_enqueued + 1,
                             enqueued_at |-> current_time_ms])
        /\ n_enqueued' = n_enqueued + 1
        /\ last_op' = "enqueue"
        /\ UNCHANGED <<delay_ms, current_time_ms, delivered, total_current, monotone,
                       notDelay>>

LogEntry(e, t) == [id |-> e.id, enqueued_at |-> e.enqueued_at, at |-> t]

Deliver ==
    \E t \in DeliverTimes :
        LET r == DeliverResult(events, t)
        IN  /\ current_time_ms' = t
            /\ events' = r.events
            /\ total_current' = r.total
            /\ delivered' = delivered \o
                   [i \in 1 .. Len(r.released) |-> LogEntry(r.released[i], t)]
            /\ monotone' = (monotone /\ t >= current_time_ms)
            /\ last_op' = "deliver"
            /\ UNCHANGED <<delay_ms, n_enqueued, notDelay>>

----------------------------------------------------------------------------
(* SwarmDecisionSystem: objectives, prioritization, allocation *)

MaxObjectives == 2
MaxAgents == 3
MaxRequired == 2

\* An urgency is kept exactly, as the f64 value m * 2^e with m odd, or as zero.
\* MinExponent is the exponent of the smallest positive f64, 2^-1074; every
\* mantissa of the model is below 2^MantissaBits.
MinExponent == -1074
MantissaBits == 6

RECURSIVE Dyadic(_, _)
Dyadic(m, e) ==
    IF m = 0 THEN [m |-> 0, e |-> MinExponent]
    ELSE IF m % 2 = 0 THEN Dyadic(m \div 2, e + 1)
    ELSE [m |-> m, e |-> e]

RECURSIVE Pow2(_)
Pow2(n) == IF n = 0 THEN 1 ELSE 2 * Pow2(n - 1)

\* a < b on urgencies
UrgencyLt(a, b) ==
    LET d == a.e - b.e
    IN  IF d >= 0
        THEN a.m * Pow2(IF d < MantissaBits THEN d ELSE MantissaBits) < b.m
        ELSE a.m < b.m * Pow2(IF -d < MantissaBits THEN -d ELSE MantissaBits)

Quarter == Dyadic(1, -2)
Half == Dyadic(1, -1)
ThreeQuarters == Dyadic(3, -2)
Urgencies == {Quarter, ThreeQuarters}
AgentIds == 1 .. MaxAgents
TestZone == 100
TestDeadline == 3600

\* an objective as the planning collaborator supplies it; identities are distinct
MissionObjective(id, urgency, required) ==
    [objective_id |-> id, objective_type |-> "Survey", target_zone_id |-> TestZone,
     urgency |-> urgency, resources_required |-> required,
     deadline_seconds |-> TestDeadline]

\* an insertion that puts x in front of elements of equal urgency
RECURSIVE InsertRankedUnstable(_, _)
InsertRankedUnstable(ranked_list, x) ==
    IF ranked_list = <<>> THEN <<x>>
    ELSE IF ~UrgencyLt(x.urgency, Head(ranked_list).urgency) THEN <<x>> \o ranked_list
    ELSE <<Head(ranked_list)>> \o InsertRankedUnstable(Tail(ranked_list), x)

\* x placed into a list already in non-increasing urgency order, behind every
\* element that does not compare greater under the comparator b.urgency vs a.urgency
RECURSIVE InsertRanked(_, _)
InsertRanked(ranked, x) ==
    IF ranked = <<>> THEN <<x>>
    ELSE IF UrgencyLt(Head(ranked).urgency, x.urgency) THEN <<x>> \o ranked
    ELSE <<Head(ranked)>> \o InsertRanked(Tail(ranked), x)

\* the stable sort_by of prioritize_objectives
RECURSIVE SortByUrgency(_, _)
SortByUrgency(rest, ranked) ==
    IF rest = <<>> THEN ranked
    ELSE SortByUrgency(Tail(rest), InsertRanked(ranked, Head(rest)))

StoredOrder(objs) == objs

PrioritizeObjectives(objs) == SortByUrgency(objs, <<>>)

\* allocation.insert(key, value)
MapInsert(map, key, value) == (key :> value) @@ map

AssignSameAgent(st, objective, agent_ids) ==
    IF st.agent_idx < Len(agent_ids)
    THEN [allocation |-> MapInsert(st.allocation, agent_ids[st.agent_idx + 1], objective),
          inserts |-> Append(st.inserts, [agent |-> agent_ids[st.agent_idx + 1],
                                          objective_id |-> objective.objective_id]),
          agent_idx |-> st.agent_idx,
          stop |-> FALSE]
    ELSE [st EXCEPT !.stop = TRUE]

\* one pass of the inner loop body: insert and advance, or break
AssignOne(st, objective, agent_ids) ==
    IF st.agent_idx < Len(agent_ids)
    THEN [allocation |-> MapInsert(st.allocation, agent_ids[st.agent_idx + 1], objective),
          inserts |-> Append(st.inserts, [agent |-> agent_ids[st.agent_idx + 1],
                                          objective_id |-> objective.objective_id]),
          agent_idx |-> st.agent_idx + 1,
          stop |-> FALSE]
    ELSE [st EXCEPT !.stop = TRUE]

\* for _ in 0..agents_needed
RECURSIVE AssignLoop(_, _, _, _)
AssignLoop(st, objective, agent_ids, remaining) ==
    IF remaining = 0 \/ st.stop THEN [st EXCEPT !.stop = FALSE]
    ELSE AssignLoop(AssignOne(st, objective, agent_ids), objective, agent_ids,
                    remaining - 1)

\* for objective in priorities
RECURSIVE ObjectiveLoop(_, _, _)
ObjectiveLoop(st, priorities, agent_ids) ==
    IF priorities = <<>> THEN st
    ELSE LET objective == Head(priorities)
             agents_needed == objective.resources_required
         IN  ObjectiveLoop(AssignLoop(st, objective, agent_ids, agents_needed),
                           Tail(priorities), agent_ids)

EmptyMap == [a \in {} |-> 0]

\* allocate_agents with agent_ids the order in which the agent map yields its keys
AllocateAgents(objs, agent_ids) ==
    ObjectiveLoop([allocation |-> EmptyMap, inserts |-> <<>>, agent_idx |-> 0,
                   stop |-> FALSE],
                  PrioritizeObjectives(objs), agent_ids)

\* the orders in which a HashMap holding the keys S may yield them
Enumerations(S) ==
    {q \in [1 .. Cardinality(S) -> S] : \A i, j \in DOMAIN q : i # j => q[i] # q[j]}

AllocIdle ==
    /\ objectives = <<>>
    /\ agents = {}
    /\ allocation = EmptyMap
    /\ inserts = <<>>
    /\ allocated = FALSE

\* the map a call returned is the caller's; it is recomputed, never updated
DropAllocation ==
    /\ allocation' = EmptyMap
    /\ inserts' = <<>>
    /\ allocated' = FALSE

AddObjective ==
    \E urgency \in Urgencies, required \in 0 .. MaxRequired :
        /\ Len(objectives) < MaxObjectives
        /\ objectives' = Append(objectives,
                                MissionObjective(Len(objectives) + 1, urgency, required))
        /\ DropAllocation
        /\ UNCHANGED <<agents, notAlloc>>

\* collective.add_agent(SwarmAgent::new(id, _))
AddAgent ==
    \E id \in AgentIds :
        /\ agents' = agents \cup {id}
        /\ DropAllocation
        /\ UNCHANGED <<objectives, notAlloc>>

AllocateAgentsCall ==
    \E agent_ids \in Enumerations(agents) :
        LET r == AllocateAgents(objectives, agent_ids)
        IN  /\ allocation' = r.allocation
            /\ inserts' = r.inserts
            /\ allocated' = TRUE
            /\ UNCHANGED <<objectives, agents, notAlloc>>

\* the stored lists prioritize_objectives is called on: up to MaxRanked
\* objectives in add order, identities distinct
MaxRanked == 3

RECURSIVE ObjectiveLists(_)
ObjectiveLists(n) ==
    IF n = 0 THEN {<<>>}
    ELSE LET shorter == ObjectiveLists(n - 1)
         IN  shorter \cup
             {Append(objs, MissionObjective(n, urgency, required)) :
                 objs \in {o \in shorter : Len(o) = n - 1},
                 urgency \in Urgencies, required \in 0 .. MaxRequired}

RankIdle ==
    /\ ranking = <<>>
    /\ prioritized = FALSE
    /\ stored_before = <<>>

\* let ranked = decision.prioritize_objectives()
PrioritizeObjectivesCall ==
    /\ ~prioritized
    /\ ranking' = PrioritizeObjectives(objectives)
    /\ prioritized' = TRUE
    /\ stored_before' = objectives
    /\ UNCHANGED <<allocVars, notDecision>>

----------------------------------------------------------------------------
(* NeuralLayer: the neurons of one layer stepped together (snn/layer.rs) *)

MaxLayerSteps == 2
LayerCurrents == {100, 20000000}

\* NeuralLayer::new(layer_id, neuron_count): every neuron as LIFNeuron::new makes it
LayerIdle ==
    /\ layer_neurons = [id \in LayerNeurons |->
                           [membrane_potential |-> RestPotential,
                            last_spike_time_ms |-> NEG_INFINITY]]
    /\ input_currents = EmptyMap
    /\ spike_ids = {}
    /\ layer_op = "new"
    /\ ever_spiked = {}
    /\ n_layer_steps = 0

\* layer.inject_current(neuron_id, current)
InjectCurrent ==
    \E neuron_id \in LayerNeurons, current \in LayerCurrents :
        /\ input_currents' = MapInsert(input_currents, neuron_id, current)
        /\ layer_op' = "inject_current"
        /\ UNCHANGED <<layer_neurons, spike_ids, ever_spiked, n_layer_steps, notLayer>>

\* neuron.integrate(input, dt_ms) for every neuron of the layer, by id
LayerIntegrate(neurons, currents, dt_ms) ==
    [id \in DOMAIN neurons |->
        IntegrateResult(neurons[id].membrane_potential, neurons[id].last_spike_time_ms,
                        IF id \in DOMAIN currents THEN currents[id] ELSE 0, dt_ms)]

\* layer.step(dt_ms)
LayerStep ==
    \E dt_ms \in Dts :
        LET r == LayerIntegrate(layer_neurons, input_currents, dt_ms)
            spikes == {id \in DOMAIN r : r[id].spike}
        IN  /\ n_layer_steps < MaxLayerSteps
            /\ layer_neurons' = [id \in DOMAIN r |->
                                    [membrane_potential |-> r[id].v,
                                     last_spike_time_ms |-> r[id].last]]
            /\ input_currents' = EmptyMap
            /\ spike_ids' = spikes
            /\ ever_spiked' = ever_spiked \cup spikes
            /\ layer_op' = "step"
            /\ n_layer_steps' = n_layer_steps + 1
            /\ UNCHANGED notLayer

\* layer.reset()
LayerReset ==
    /\ layer_neurons' = [id \in DOMAIN layer_neurons |->
                            [membrane_potential |-> RestPotential,
                             last_spike_time_ms |-> NEG_INFINITY]]
    /\ input_currents' = EmptyMap
    /\ ever_spiked' = {}
    /\ layer_op' = "reset"
    /\ UNCHANGED <<spike_ids, n_layer_steps, notLayer>>

\* layer.activity_level()
ActivityLevel(neurons) ==
    Cardinality({id \in DOMAIN neurons :
                    FLt(FAdd(NEG_INFINITY, Fin(1)), neurons[id].last_spike_time_ms)})

----------------------------------------------------------------------------
(* SwarmDecisionSystem::replan_if_needed (swarm/decision.rs) *)

MaxReplans == 2
LowCohesion == 30000
LowArousal == 20

SmallestPositive == Dyadic(1, MinExponent)
ReplanUrgencies ==
    {Dyadic(0, 0), SmallestPositive, Dyadic(3, MinExponent), Quarter, Dyadic(3, -3),
     Half, ThreeQuarters}

\* urgency *= 0.5: exact while the result is representable, rounded to the
\* nearest multiple of 2^MinExponent, ties to the even multiple, below that
UrgencyHalved(u) ==
    IF u.m = 0 THEN u
    ELSE IF u.e > MinExponent THEN [m |-> u.m, e |-> u.e - 1]
    ELSE LET q == u.m \div 2
         IN  Dyadic(IF q % 2 = 0 THEN q ELSE q + 1, MinExponent)

\* the collectives replan_if_needed is called with: what it reads of one
ThreatCounts == {<<>>, <<0>>, <<0, 2>>}
ReplanCollectives ==
    {[agents |-> [id \in DOMAIN threats |->
                     [local_sensor_data |-> [threats_detected |-> threats[id]]]],
      coordination_state |-> [group_cohesion |-> cohesion, average_arousal |-> arousal]] :
        threats \in ThreatCounts,
        cohesion \in {Fin(LowCohesion - 10000), Fin(LowCohesion), NaN},
        arousal \in {LowArousal - 10, LowArousal}}

\* low_cohesion || low_arousal || threats
ReplanTriggered(collective) ==
    \/ FLt(collective.coordination_state.group_cohesion, Fin(LowCohesion))
    \/ collective.coordination_state.average_arousal < LowArousal
    \/ \E id \in DOMAIN collective.agents :
           collective.agents[id].local_sensor_data.threats_detected > 0

\* a replanning that, when triggered, halves every objective
ReplanHalvingAll(objs, collective) ==
    IF ReplanTriggered(collective)
    THEN [i \in DOMAIN objs |-> [objs[i] EXCEPT !.urgency = UrgencyHalved(@)]]
    ELSE objs

\* a replanning that, when triggered, halves the objectives at or above 0.5
ReplanHalvingHigh(objs, collective) ==
    IF ReplanTriggered(collective)
    THEN [i \in DOMAIN objs |->
            IF UrgencyLt(objs[i].urgency, Half)
            THEN objs[i]
            ELSE [objs[i] EXCEPT !.urgency = UrgencyHalved(@)]]
    ELSE objs

\* objectives after decision.replan_if_needed(&collective)
ReplanIfNeeded(objs, collective) ==
    IF ReplanTriggered(collective)
    THEN [i \in DOMAIN objs |->
            IF UrgencyLt(objs[i].urgency, Half)
            THEN [objs[i] EXCEPT !.urgency = UrgencyHalved(@)]
            ELSE objs[i]]
    ELSE objs

ReplanIdle ==
    /\ replan_call = [called |-> FALSE, collective |-> <<>>, before |-> <<>>]
    /\ replan_initial = <<>>
    /\ n_replans = 0

\* the stored lists replan_if_needed is called on
RECURSIVE ReplanObjectiveLists(_)
ReplanObjectiveLists(n) ==
    IF n = 0 THEN {<<>>}
    ELSE LET shorter == ReplanObjectiveLists(n - 1)
         IN  shorter \cup
             {Append(objs, MissionObjective(n, urgency, 1)) :
                 objs \in {o \in shorter : Len(o) = n - 1},
                 urgency \in ReplanUrgencies}

ReplanIfNeededCall ==
    \E collective \in ReplanCollectives :
        /\ n_replans < MaxReplans
        /\ objectives' = ReplanIfNeeded(objectives, collective)
        /\ replan_call' = [called |-> TRUE, collective |-> collective,
                           before |-> objectives]
        /\ n_replans' = n_replans + 1
        /\ UNCHANGED <<agents, allocation, inserts, allocated, replan_initial,
                       notReplan>>

----------------------------------------------------------------------------
(* SwarmCollective: consensus, centroid and cohesion (swarm/collective.rs) *)

MaxSwarm == 2
MaxSteps == 1
SwarmIds == 1 .. MaxSwarm
RetreatBelow == 30
ConcentrateAbove == 70
TaskPriorities == {20, 30, 70, 80}
MetersPerDegree == 111000
StepDts == {1, 10}
InitialCohesion == 50000
InitialArousal == 50
DefaultTaskPriority == 30
DefaultArousal == 70
CohesionGain == 10

\* SwarmAgent::new(id, _): the fields the collective reads
SwarmAgentNew(id) ==
    [id |-> id, position |-> <<Fin(0), Fin(0), Fin(0)>>, velocity |-> <<0, 0, 0>>,
     heading |-> 0,
     snn_state |-> [task_priority |-> DefaultTaskPriority,
                    arousal_level |-> DefaultArousal]]

\* agents as test_centroid_calculation places them, the second moving north
\* with low arousal, and one whose latitude is f64::NAN: position is a public
\* field and add_agent takes the agent as it is
PlacedAgents(id) ==
    {[SwarmAgentNew(id) EXCEPT !.position = <<Fin(33000), Fin(-112000), Fin(0)>>],
     [SwarmAgentNew(id) EXCEPT !.position = <<Fin(33100), Fin(-112100), Fin(0)>>,
                               !.velocity = <<111000, 0, 0>>,
                               !.snn_state.arousal_level = 10],
     [SwarmAgentNew(id) EXCEPT !.position = <<NaN, Fin(-112000), Fin(0)>>]}

MillimetresPerMetre == 1000

\* agent.move_agent(dt_seconds)
MoveAgent(agent, dt_seconds) ==
    [agent EXCEPT
        !.position =
            <<FAdd(agent.position[1], Fin((agent.velocity[1] * dt_seconds) \div MetersPerDegree)),
              FAdd(agent.position[2], Fin((agent.velocity[2] * dt_seconds) \div MetersPerDegree)),
              FAdd(agent.position[3],
                   Fin((agent.velocity[3] * dt_seconds) \div MillimetresPerMetre))>>]

\* a count that puts the boundary priorities 0.3 and 0.7 with retreat and concentrate
RECURSIVE CountVotesInclusive(_, _, _)
CountVotesInclusive(counts, agent_map, order) ==
    IF order = <<>> THEN counts
    ELSE LET p == agent_map[Head(order)].snn_state.task_priority
             next == IF p >= ConcentrateAbove
                        THEN [counts EXCEPT !.concentrate = @ + 1]
                     ELSE IF p <= RetreatBelow
                        THEN [counts EXCEPT !.retreat = @ + 1]
                     ELSE [counts EXCEPT !.explore = @ + 1]
         IN  CountVotesInclusive(next, agent_map, Tail(order))

\* the three counters after the loop over agents.values() in the given order
RECURSIVE CountVotes(_, _, _)
CountVotes(counts, agent_map, order) ==
    IF order = <<>> THEN counts
    ELSE LET p == agent_map[Head(order)].snn_state.task_priority
             next == IF p > ConcentrateAbove
                        THEN [counts EXCEPT !.concentrate = @ + 1]
                     ELSE IF p < RetreatBelow
                        THEN [counts EXCEPT !.retreat = @ + 1]
                     ELSE [counts EXCEPT !.explore = @ + 1]
         IN  CountVotes(next, agent_map, Tail(order))

max(a, b) == IF b > a THEN b ELSE a

\* a match that takes a decision only from a count strictly above the others
MatchStrict(c) ==
    IF c.explore > c.concentrate /\ c.explore > c.retreat THEN "Explore"
    ELSE IF c.concentrate > c.explore /\ c.concentrate > c.retreat THEN "Concentrate"
    ELSE IF c.retreat > c.explore /\ c.retreat > c.concentrate THEN "Retreat"
    ELSE "Wait"

\* match explore_count.max(concentrate_count).max(retreat_count) { ... }
MatchCounts(c) ==
    LET m == max(max(c.explore, c.concentrate), c.retreat)
    IN  IF m = c.explore THEN "Explore"
        ELSE IF m = c.concentrate THEN "Concentrate"
        ELSE IF m = c.retreat THEN "Retreat"
        ELSE "Wait"

\* a decision taken from the first agent the map yields
ConsensusOfFirst(agent_map, order) ==
    IF order = <<>> THEN "Explore"
    ELSE MatchCounts(CountVotes([explore |-> 0, concentrate |-> 0, retreat |-> 0],
                                agent_map, <<Head(order)>>))

\* the decision consensus_majority stores
ConsensusMajority(agent_map, order) ==
    MatchCounts(CountVotes([explore |-> 0, concentrate |-> 0, retreat |-> 0],
                           agent_map, order))

DegreeUnit == 1000
MaxVoters == 3
VoterIds == 1 .. MaxVoters

\* the sum the loop of update_centroid accumulates for one field
RECURSIVE SumLat(_, _)
SumLat(agent_map, order) ==
    IF order = <<>> THEN Fin(0)
    ELSE FAdd(agent_map[Head(order)].position[1], SumLat(agent_map, Tail(order)))

RECURSIVE SumLon(_, _)
SumLon(agent_map, order) ==
    IF order = <<>> THEN Fin(0)
    ELSE FAdd(agent_map[Head(order)].position[2], SumLon(agent_map, Tail(order)))

RECURSIVE SumArousal(_, _)
SumArousal(agent_map, order) ==
    IF order = <<>> THEN 0
    ELSE agent_map[Head(order)].snn_state.arousal_level
         + SumArousal(agent_map, Tail(order))

\* a / n for a count n >= 1, floored
FDivCount(a, n) == IF a.k = "fin" THEN Fin(a.v \div n) ELSE a

\* a centroid that divides by the capacity of the swarm instead of its size
UpdateCentroidByCapacity(coord, agent_map, order) ==
    IF order = <<>> THEN coord
    ELSE [coord EXCEPT
             !.centroid_lat = FDivCount(SumLat(agent_map, order), MaxSwarm + 1),
             !.centroid_lon = FDivCount(SumLon(agent_map, order), MaxSwarm + 1),
             !.average_arousal = SumArousal(agent_map, order) \div (MaxSwarm + 1)]

\* the coordination state update_centroid leaves
UpdateCentroid(coord, agent_map, order) ==
    IF order = <<>> THEN coord
    ELSE LET n == Len(order)
         IN  [coord EXCEPT !.centroid_lat = FDivCount(SumLat(agent_map, order), n),
                           !.centroid_lon = FDivCount(SumLon(agent_map, order), n),
                           !.average_arousal = SumArousal(agent_map, order) \div n]

Abs(x) == IF x < 0 THEN -x ELSE x

\* (dlat * dlat + dlon * dlon).sqrt() of finite legs, floored.  Beyond FarDistance
\* (30 degrees) the squares leave the integer range; the larger leg stands for
\* the distance there, which is a lower bound of it and far past the point
\* where the cohesion has reached 0.
FarDistance == 30000
Hypot(dlat, dlon) ==
    IF max(Abs(dlat), Abs(dlon)) > FarDistance THEN max(Abs(dlat), Abs(dlon))
    ELSE CHOOSE r \in max(Abs(dlat), Abs(dlon)) .. Abs(dlat) + Abs(dlon) :
            /\ r * r <= dlat * dlat + dlon * dlon
            /\ dlat * dlat + dlon * dlon < (r + 1) * (r + 1)

\* the same over f64: NaN if a leg is NaN, infinite if a leg is infinite
Distance(dlat, dlon) ==
    IF dlat.k = "nan" \/ dlon.k = "nan" THEN NaN
    ELSE IF dlat.k # "fin" \/ dlon.k # "fin" THEN INFINITY
    ELSE Fin(Hypot(dlat.v, dlon.v))

RECURSIVE TotalDistance(_, _, _)
TotalDistance(coord, agent_map, order) ==
    IF order = <<>> THEN Fin(0)
    ELSE FAdd(Distance(FSub(agent_map[Head(order)].position[1], coord.centroid_lat),
                       FSub(agent_map[Head(order)].position[2], coord.centroid_lon)),
              TotalDistance(coord, agent_map, Tail(order)))

\* ExpUnit * exp(-k / ExpSteps) for any k >= 0, from exp(-(a + b)) = exp(-a) exp(-b);
\* ExpUnit * exp(-12) is below one unit
RECURSIVE ExpNegSteps(_)
ExpNegSteps(k) ==
    IF k <= 2 * ExpSteps THEN ExpTable[k + 1]
    ELSE IF k > 12 * ExpSteps THEN 0
    ELSE (ExpTable[2 * ExpSteps + 1] * ExpNegSteps(k - 2 * ExpSteps)) \div ExpUnit

\* (-avg_distance * 10.0).exp() for an average distance that is not negative
ExpOfCohesion(avg_distance) ==
    IF avg_distance.k = "nan" THEN NaN
    ELSE IF avg_distance.k = "+inf" THEN Fin(0)
    ELSE Fin(ExpNegSteps((avg_distance.v * CohesionGain * ExpSteps) \div DegreeUnit))

\* f64::clamp: NaN stays NaN
FClamp(x, lo, hi) == IF x.k = "fin" THEN Fin(Clamp(x.v, lo, hi)) ELSE x

\* the coordination state calculate_cohesion leaves
CalculateCohesion(coord, agent_map, order) ==
    IF order = <<>> THEN [coord EXCEPT !.group_cohesion = Fin(0)]
    ELSE LET avg_distance == FDivCount(TotalDistance(coord, agent_map, order), Len(order))
         IN  [coord EXCEPT !.group_cohesion = FClamp(ExpOfCohesion(avg_distance), 0, ExpUnit)]

\* the CoordinationState of SwarmCollective::new
CoordinationStateNew ==
    [centroid_lat |-> Fin(0), centroid_lon |-> Fin(0),
     average_arousal |-> InitialArousal, group_cohesion |-> Fin(InitialCohesion),
     time_since_decision_s |-> 0]

\* SwarmCollective::new(swarm_id)
SwarmCollectiveNew ==
    /\ collective_agents = EmptyMap
    /\ consensus_decision = "Explore"
    /\ coordination_state = CoordinationStateNew
    /\ coll_op = "new"
    /\ n_steps = 0

\* collective.add_agent(agent) with a placed agent
AddPlacedAgent ==
    \E id \in SwarmIds :
        \E agent \in PlacedAgents(id) :
            /\ collective_agents' = MapInsert(collective_agents, id, agent)
            /\ coll_op' = "add_agent"
            /\ UNCHANGED <<consensus_decision, coordination_state, n_steps, notCollective>>

\* collective.add_agent(agent) after agent.snn_state.task_priority = p
AddVoter ==
    \E id \in VoterIds, p \in TaskPriorities :
        /\ collective_agents' =
              MapInsert(collective_agents, id,
                        [SwarmAgentNew(id) EXCEPT !.snn_state.task_priority = p])
        /\ coll_op' = "add_agent"
        /\ UNCHANGED <<consensus_decision, coordination_state, n_steps, notCollective>>

UpdateCentroidCall ==
    \E order \in Enumerations(DOMAIN collective_agents) :
        /\ coordination_state' = UpdateCentroid(coordination_state, collective_agents, order)
        /\ coll_op' = "update_centroid"
        /\ UNCHANGED <<collective_agents, consensus_decision, n_steps, notCollective>>

CalculateCohesionCall ==
    \E order \in Enumerations(DOMAIN collective_agents) :
        /\ coordination_state' =
              CalculateCohesion(coordination_state, collective_agents, order)
        /\ coll_op' = "calculate_cohesion"
        /\ UNCHANGED <<collective_agents, consensus_decision, n_steps, notCollective>>

ConsensusMajorityCall ==
    \E order \in Enumerations(DOMAIN collective_agents) :
        /\ consensus_decision' = ConsensusMajority(collective_agents, order)
        /\ coll_op' = "consensus_majority"
        /\ UNCHANGED <<collective_agents, coordination_state, n_steps, notCollective>>

\* a step that aggregates and votes before it moves the agents
StepAggregatingFirst(coord, agent_map, order, dt_seconds) ==
    LET centred == UpdateCentroid(coord, agent_map, order)
        cohered == CalculateCohesion(centred, agent_map, order)
    IN  [agents |-> [id \in DOMAIN agent_map |-> MoveAgent(agent_map[id], dt_seconds)],
         consensus_decision |-> ConsensusMajority(agent_map, order),
         coordination_state |-> [cohered EXCEPT !.time_since_decision_s = @ + dt_seconds]]

\* the collective after step(dt_seconds): every agent moved, then
\* update_centroid, calculate_cohesion and consensus_majority on the moved agents
StepResult(coord, agent_map, order, dt_seconds) ==
    LET moved == [id \in DOMAIN agent_map |-> MoveAgent(agent_map[id], dt_seconds)]
        centred == UpdateCentroid(coord, moved, order)
        cohered == CalculateCohesion(centred, moved, order)
    IN  [agents |-> moved,
         consensus_decision |-> ConsensusMajority(moved, order),
         coordination_state |-> [cohered EXCEPT !.time_since_decision_s = @ + dt_seconds]]

\* collective.step(dt_seconds)
Step ==
    \E dt_seconds \in StepDts :
        \E order \in Enumerations(DOMAIN collective_agents) :
            LET r == StepResult(coordination_state, collective_agents, order, dt_seconds)
            IN  /\ n_steps < MaxSteps
                /\ collective_agents' = r.agents
                /\ consensus_decision' = r.consensus_decision
                /\ coordination_state' = r.coordination_state
                /\ coll_op' = "step"
                /\ n_steps' = n_steps + 1
                /\ UNCHANGED notCollective

----------------------------------------------------------------------------
(* SwarmAgent::snn_decision (swarm/agent.rs) *)

MaxDecisions == 2
DecisionUnit == 10000
MoistureWeight == 30
PhNeutral == 75
PhWeight == 2000
ThreatPenalty == 8000
ThreatArousal == 95
ColdBelow == 10
ColdPenalty == 2000
ColdArousalTenths == 7
ExecuteAbove == 8000
ExploreAbove == 5000
MonitorAbove == 2000

\* SensorReadings::default()
SensorDefault ==
    [soil_moisture_percent |-> Fin(20), soil_ph |-> Fin(72), temperature_c |-> 25,
     threats_detected |-> 0]

\* the snapshots the external caller supplies; the readings are f64 fields
\* written as they arrive, and a failed reading arrives as NaN
SensorSnapshots ==
    {[soil_moisture_percent |-> moisture, soil_ph |-> ph, temperature_c |-> temperature,
      threats_detected |-> threats] :
        moisture \in {Fin(-50), Fin(0), Fin(80), NaN},
        ph \in {Fin(-75), Fin(0), Fin(72), NaN},
        temperature \in {5, 25},
        threats \in {0, 1}}

\* x * num / den for positive num and den
Scaled(x, num, den) == IF x.k = "fin" THEN Fin((x.v * num) \div den) ELSE x

\* f64::clamp(lo, hi): NaN stays NaN
ClampF64(x, lo, hi) ==
    IF x.k = "nan" THEN NaN
    ELSE IF x.k = "-inf" THEN Fin(lo)
    ELSE IF x.k = "+inf" THEN Fin(hi)
    ELSE Fin(Clamp(x.v, lo, hi))

\* decision_potential at the end of snn_decision
DecisionPotential(sensors) ==
    LET moist == FSub(Fin(0), Scaled(sensors.soil_moisture_percent, MoistureWeight, 1))
        acid == FAdd(moist, Scaled(FSub(Fin(PhNeutral), sensors.soil_ph),
                                   PhWeight, PhNeutral))
        threat == IF sensors.threats_detected > 0
                  THEN FSub(acid, Fin(ThreatPenalty)) ELSE acid
    IN  IF sensors.temperature_c < ColdBelow
        THEN FSub(threat, Fin(ColdPenalty)) ELSE threat

\* decision_to_action
DecisionToAction(task_priority) ==
    IF FLt(Fin(ExecuteAbove), task_priority) THEN "ExecuteTask"
    ELSE IF FLt(Fin(ExploreAbove), task_priority) THEN "Explore"
    ELSE IF FLt(Fin(MonitorAbove), task_priority) THEN "Monitor"
    ELSE "ReturnHome"

\* the agent after snn_decision
SnnDecision(agent) ==
    LET sensors == agent.local_sensor_data
        potential == DecisionPotential(sensors)
        alert == IF sensors.threats_detected > 0
                 THEN ThreatArousal ELSE agent.snn_state.arousal_level
        arousal == IF sensors.temperature_c < ColdBelow
                   THEN (alert * ColdArousalTenths) \div 10 ELSE alert
    IN  [agent EXCEPT
            !.snn_state.arousal_level = arousal,
            !.snn_state.task_priority = ClampF64(potential, 0, DecisionUnit),
            !.snn_state.recent_spikes =
                IF potential.k = "fin" THEN Abs(potential.v) \div 100 ELSE 0]

\* SwarmAgent::new(id, _): the fields snn_decision reads and writes
SnnIdle ==
    /\ snn_agent = [local_sensor_data |-> SensorDefault,
                    snn_state |-> [task_priority |-> Fin(30 * 100),
                                   arousal_level |-> DefaultArousal,
                                   recent_spikes |-> 0]]
    /\ snn_action = "none"
    /\ n_decisions = 0

\* the external caller writes a sensor snapshot into the agent
SupplySensors ==
    \E sensors \in SensorSnapshots :
        /\ snn_agent' = [snn_agent EXCEPT !.local_sensor_data = sensors]
        /\ snn_action' = "none"
        /\ UNCHANGED <<n_decisions, notSnn>>

\* let action = agent.snn_decision()
SnnDecisionCall ==
    /\ n_decisions < MaxDecisions
    /\ snn_agent' = SnnDecision(snn_agent)
    /\ snn_action' = DecisionToAction(snn_agent'.snn_state.task_priority)
    /\ n_decisions' = n_decisions + 1
    /\ UNCHANGED notSnn

----------------------------------------------------------------------------
(* Flocking rules of the collective (swarm/collective.rs) *)

MaxFlockCalls == 2
KmPerDegree == 111
FlockRadii == {500, 1000}
MinSeparation == 1
RepulsionScale == 1000000
RepulsionGainDivisor == 10

\* agents around the test position: the first heading north, the others east,
\* at the same place or 555 m north of it; one with a latitude that is f64::NAN
FlockAgents(id) ==
    {[SwarmAgentNew(id) EXCEPT !.position = <<Fin(33000), Fin(-112000), Fin(0)>>],
     [SwarmAgentNew(id) EXCEPT !.position = <<Fin(33000), Fin(-112000), Fin(0)>>,
                               !.heading = 9000],
     [SwarmAgentNew(id) EXCEPT !.position = <<Fin(33005), Fin(-112000), Fin(0)>>,
                               !.heading = 9000],
     [SwarmAgentNew(id) EXCEPT !.position = <<NaN, Fin(-112000), Fin(0)>>,
                               !.heading = 9000]}

\* dist_km of the two loops, in metres
DistKm(dlat, dlon) ==
    LET d == Distance(dlat, dlon)
    IN  IF d.k = "fin" THEN Fin(d.v * KmPerDegree) ELSE d

\* the other agents within the radius of agent id
Neighbors(agent_map, id, neighbor_radius_km) ==
    {other \in DOMAIN agent_map \ {id} :
        FLt(DistKm(FSub(agent_map[other].position[1], agent_map[id].position[1]),
                   FSub(agent_map[other].position[2], agent_map[id].position[2])),
            Fin(neighbor_radius_km))}

RECURSIVE SumHeadings(_, _)
SumHeadings(agent_map, ids) ==
    IF ids = {} THEN 0
    ELSE LET other == CHOOSE x \in ids : TRUE
         IN  agent_map[other].heading + SumHeadings(agent_map, ids \ {other})

\* the body of the outer loop of local_alignment for one agent id: the headings
\* it reads are those the map holds at that moment
AlignAgent(agent_map, id, neighbor_radius_km) ==
    LET neighbors == Neighbors(agent_map, id, neighbor_radius_km)
        neighbor_count == Cardinality(neighbors)
        avg_heading == (agent_map[id].heading + SumHeadings(agent_map, neighbors))
                           \div (neighbor_count + 1)
    IN  IF neighbor_count > 0
        THEN [agent_map EXCEPT ![id].heading = (8 * @ + 2 * avg_heading) \div 10]
        ELSE agent_map

\* collective.local_alignment(neighbor_radius_km), agent_ids in the given order
RECURSIVE LocalAlignment(_, _, _)
LocalAlignment(agent_map, agent_ids, neighbor_radius_km) ==
    IF agent_ids = <<>> THEN agent_map
    ELSE LocalAlignment(AlignAgent(agent_map, Head(agent_ids), neighbor_radius_km),
                        Tail(agent_ids), neighbor_radius_km)

\* the agents that repel agent id: nearer than min_distance_km, farther than 0.001 km
Repelling(agent_map, id, min_distance_km) ==
    {other \in DOMAIN agent_map \ {id} :
        LET dist_km == DistKm(FSub(agent_map[id].position[1], agent_map[other].position[1]),
                              FSub(agent_map[id].position[2], agent_map[other].position[2]))
        IN  FLt(dist_km, Fin(min_distance_km)) /\ FLt(Fin(MinSeparation), dist_km)}

\* every other agent at a finite distance above 0.001 km, however far
RepellingAtAnyDistance(agent_map, id, min_distance_km) ==
    {other \in DOMAIN agent_map \ {id} :
        LET dist_km == DistKm(FSub(agent_map[id].position[1], agent_map[other].position[1]),
                              FSub(agent_map[id].position[2], agent_map[other].position[2]))
        IN  FLt(dist_km, INFINITY) /\ FLt(Fin(MinSeparation), dist_km)}

\* the sum of d / (dist_km * dist_km) over the repelling agents, d the
\* difference in coordinate c; the agents of ids are at finite distances
RECURSIVE Repulsion(_, _, _, _)
Repulsion(agent_map, id, ids, c) ==
    IF ids = {} THEN 0
    ELSE LET other == CHOOSE x \in ids : TRUE
             dlat == agent_map[id].position[1].v - agent_map[other].position[1].v
             dlon == agent_map[id].position[2].v - agent_map[other].position[2].v
             dist_km == Hypot(dlat, dlon) * KmPerDegree
             d == IF c = 1 THEN dlat ELSE dlon
         IN  (d * RepulsionScale) \div (dist_km * dist_km)
                + Repulsion(agent_map, id, ids \ {other}, c)

\* a separation in which every other agent repels
SeparationFromAll(agent_map, min_distance_km) ==
    [id \in DOMAIN agent_map |->
        LET ids == RepellingAtAnyDistance(agent_map, id, min_distance_km)
        IN  [agent_map[id] EXCEPT
                !.velocity[1] = @ + Repulsion(agent_map, id, ids, 1) \div RepulsionGainDivisor,
                !.velocity[2] = @ + Repulsion(agent_map, id, ids, 2) \div RepulsionGainDivisor]]

\* collective.local_separation(min_distance_km): positions are only read, so
\* the order of agent_ids does not matter
LocalSeparation(agent_map, min_distance_km) ==
    [id \in DOMAIN agent_map |->
        LET ids == Repelling(agent_map, id, min_distance_km)
        IN  [agent_map[id] EXCEPT
                !.velocity[1] = @ + Repulsion(agent_map, id, ids, 1) \div RepulsionGainDivisor,
                !.velocity[2] = @ + Repulsion(agent_map, id, ids, 2) \div RepulsionGainDivisor]]

FlockIdle ==
    /\ flock_before = EmptyMap
    /\ flock_arg = 0
    /\ n_flock = 0

\* collective.add_agent(agent) with an agent of the flock; the caller numbers
\* the agents as it adds them and assembles the flock before it applies a rule
AddFlockAgent ==
    \E id \in SwarmIds :
        \E agent \in FlockAgents(id) :
            /\ id = Cardinality(DOMAIN collective_agents) + 1
            /\ n_flock = 0
            /\ collective_agents' = MapInsert(collective_agents, id, agent)
            /\ coll_op' = "add_agent"
            /\ UNCHANGED <<consensus_decision, coordination_state, n_steps,
                           flockVars, notFlock>>

LocalAlignmentCall ==
    \E neighbor_radius_km \in FlockRadii :
        \E agent_ids \in Enumerations(DOMAIN collective_agents) :
            /\ n_flock < MaxFlockCalls
            /\ collective_agents' =
                  LocalAlignment(collective_agents, agent_ids, neighbor_radius_km)
            /\ flock_before' = collective_agents
            /\ flock_arg' = neighbor_radius_km
            /\ n_flock' = n_flock + 1
            /\ coll_op' = "local_alignment"
            /\ UNCHANGED <<consensus_decision, coordination_state, n_steps, notFlock>>

LocalSeparationCall ==
    \E min_distance_km \in FlockRadii :
        /\ n_flock < MaxFlockCalls
        /\ collective_agents' = LocalSeparation(collective_agents, min_distance_km)
        /\ flock_before' = collective_agents
        /\ flock_arg' = min_distance_km
        /\ n_flock' = n_flock + 1
        /\ coll_op' = "local_separation"
        /\ UNCHANGED <<consensus_decision, coordination_state, n_steps, notFlock>>

----------------------------------------------------------------------------
(* RewardLearner and SwarmRewardPool (learning/reward.rs) *)

RewardUnit == 10000
RateUnit == 1000
InitialValueEstimate == 5000
LearnerLearningRate == 100
DiscountFactor == 990
MaxRewards == 3
MaxPoolRewards == 2
MaxLearners == 2
LearnerIds == 1 .. MaxLearners
RewardKinds == {"TreeGrowth", "WildlifeReturn", "Penalty"}
RewardAmounts == {RewardUnit, (5 * RewardUnit) \div 2}
RewardSignals == {[kind |-> kind, v |-> v] : kind \in RewardKinds, v \in RewardAmounts}

\* a value that takes the amount of every signal as it is
RewardMagnitude(reward) == reward.v

\* RewardSignal::value
RewardValue(reward) == IF reward.kind = "Penalty" THEN -reward.v ELSE reward.v

\* RewardLearner::new(agent_id)
RewardLearner(agent_id) ==
    [agent_id |-> agent_id, cumulative_reward |-> 0, episode_rewards |-> <<>>,
     value_estimate |-> InitialValueEstimate, learning_rate |-> LearnerLearningRate,
     discount_factor |-> DiscountFactor]

\* the learner after l.receive_reward(reward)
ReceiveReward(l, reward) ==
    LET r == RewardValue(reward)
        td_error == r + (l.discount_factor * l.value_estimate) \div RateUnit
                      - l.value_estimate
    IN  [l EXCEPT !.cumulative_reward = @ + r,
                  !.episode_rewards = Append(@, r),
                  !.value_estimate = @ + (l.learning_rate * td_error) \div RateUnit]

\* an episode start that also forgets the cumulative reward
StartNewEpisodeFromZero(l) ==
    [l EXCEPT !.episode_rewards = <<>>, !.cumulative_reward = 0]

\* the learner after l.start_new_episode()
StartNewEpisode(l) == [l EXCEPT !.episode_rewards = <<>>]

\* an individual reward that registers the learner it does not find
RewardAgentOrInsert(learners, agent_id, reward) ==
    IF agent_id \in DOMAIN learners
    THEN [learners EXCEPT ![agent_id] = ReceiveReward(@, reward)]
    ELSE MapInsert(learners, agent_id, ReceiveReward(RewardLearner(agent_id), reward))

\* individual_learners after pool.reward_agent(agent_id, reward)
RewardAgent(learners, agent_id, reward) ==
    IF agent_id \in DOMAIN learners
    THEN [learners EXCEPT ![agent_id] = ReceiveReward(@, reward)]
    ELSE learners

\* a shared reward that hands the whole reward to every learner
DistributeWholeReward(learners, reward) ==
    [id \in DOMAIN learners |->
        ReceiveReward(learners[id], [kind |-> "TreeGrowth", v |-> RewardValue(reward)])]

\* individual_learners after pool.distribute_shared_reward(reward): the loop
\* body, and with it the division by the number of learners, runs once per learner
DistributeSharedReward(learners, reward) ==
    LET r == RewardValue(reward)
    IN  [id \in DOMAIN learners |->
            ReceiveReward(learners[id],
                          [kind |-> "TreeGrowth",
                           v |-> r \div Cardinality(DOMAIN learners)])]

NoCall == [op |-> "new", agent_id |-> 0, reward |-> [kind |-> "TreeGrowth", v |-> 0]]

\* let learner = RewardLearner::new(1)
RewardLearnerNew ==
    /\ learner = RewardLearner(1)
    /\ learner_before = RewardLearner(1)
    /\ learner_op = "new"
    /\ reward_history = <<>>
    /\ episode_start = 0

\* SwarmRewardPool::new(pool_id)
SwarmRewardPoolNew ==
    /\ individual_learners = EmptyMap
    /\ collective_reward = 0
    /\ pool_before = [individual_learners |-> EmptyMap, collective_reward |-> 0]
    /\ pool_op = NoCall
    /\ n_pool_rewards = 0

\* learner.receive_reward(reward)
ReceiveRewardCall ==
    \E reward \in RewardSignals :
        /\ Len(reward_history) < MaxRewards
        /\ learner' = ReceiveReward(learner, reward)
        /\ learner_before' = learner
        /\ learner_op' = "receive_reward"
        /\ reward_history' = Append(reward_history, reward)
        /\ UNCHANGED <<episode_start, notLearner>>

\* learner.start_new_episode()
StartNewEpisodeCall ==
    /\ learner' = StartNewEpisode(learner)
    /\ learner_before' = learner
    /\ learner_op' = "start_new_episode"
    /\ episode_start' = Len(reward_history)
    /\ UNCHANGED <<reward_history, notLearner>>

\* pool.register_learner(RewardLearner::new(agent_id))
RegisterLearner ==
    \E agent_id \in LearnerIds :
        /\ individual_learners' =
              MapInsert(individual_learners, agent_id, RewardLearner(agent_id))
        /\ pool_before' = [individual_learners |-> individual_learners,
                           collective_reward |-> collective_reward]
        /\ pool_op' = [NoCall EXCEPT !.op = "register_learner", !.agent_id = agent_id]
        /\ UNCHANGED <<collective_reward, n_pool_rewards, notPool>>

\* pool.reward_agent(agent_id, reward)
RewardAgentCall ==
    \E agent_id \in LearnerIds, reward \in RewardSignals :
        /\ n_pool_rewards < MaxPoolRewards
        /\ individual_learners' = RewardAgent(individual_learners, agent_id, reward)
        /\ pool_before' = [individual_learners |-> individual_learners,
                           collective_reward |-> collective_reward]
        /\ pool_op' = [op |-> "reward_agent", agent_id |-> agent_id, reward |-> reward]
        /\ n_pool_rewards' = n_pool_rewards + 1
        /\ UNCHANGED <<collective_reward, notPool>>

\* pool.distribute_shared_reward(reward)
DistributeSharedRewardCall ==
    \E reward \in RewardSignals :
        /\ n_pool_rewards < MaxPoolRewards
        /\ individual_learners' = DistributeSharedReward(individual_learners, reward)
        /\ collective_reward' = collective_reward + RewardValue(reward)
        /\ pool_before' = [individual_learners |-> individual_learners,
                           collective_reward |-> collective_reward]
        /\ pool_op' = [NoCall EXCEPT !.op = "distribute_shared_reward", !.reward = reward]
        /\ n_pool_rewards' = n_pool_rewards + 1
        /\ UNCHANGED notPool

----------------------------------------------------------------------------
(* Specifications, one per component; the other components stay as constructed *)

InitNeuron == NeuronNew /\ StdpIdle /\ SynapseIdle /\ DelayIdle /\ AllocIdle /\ RankIdle
    /\ SwarmCollectiveNew
    /\ RewardLearnerNew /\ SwarmRewardPoolNew
    /\ SnnIdle
    /\ LayerIdle
    /\ FlockIdle
    /\ ReplanIdle
NextNeuron == Integrate
SpecNeuron == InitNeuron /\ [][NextNeuron]_vars

InitSpikeTest == NeuronNew /\ StdpIdle /\ SynapseIdle /\ DelayIdle /\ AllocIdle /\ RankIdle
    /\ SwarmCollectiveNew
    /\ RewardLearnerNew /\ SwarmRewardPoolNew
    /\ SnnIdle
    /\ LayerIdle
    /\ FlockIdle
    /\ ReplanIdle
NextSpikeTest == TestLoop
SpecSpikeTest == InitSpikeTest /\ [][NextSpikeTest]_vars

InitSTDP == NeuronNew /\ StdpNew /\ SynapseIdle /\ DelayIdle /\ AllocIdle /\ RankIdle
    /\ SwarmCollectiveNew
    /\ RewardLearnerNew /\ SwarmRewardPoolNew
    /\ SnnIdle
    /\ LayerIdle
    /\ FlockIdle
    /\ ReplanIdle
NextSTDP == ComputeWeightChangeCall \/ UpdateWeightCall
SpecSTDP == InitSTDP /\ [][NextSTDP]_vars

InitSynapse == NeuronNew /\ StdpIdle /\ SynapseIdle /\ DelayIdle /\ AllocIdle /\ RankIdle
    /\ SwarmCollectiveNew
    /\ RewardLearnerNew /\ SwarmRewardPoolNew
    /\ SnnIdle
    /\ LayerIdle
    /\ FlockIdle
    /\ ReplanIdle
NextSynapse == ConnectLayers \/ AddSynapse \/ TransmitCall
SpecSynapse == InitSynapse /\ [][NextSynapse]_vars

InitDelay ==
    /\ NeuronNew /\ StdpIdle /\ SynapseIdle /\ AllocIdle /\ RankIdle
    /\ SwarmCollectiveNew
    /\ RewardLearnerNew /\ SwarmRewardPoolNew
    /\ SnnIdle
    /\ LayerIdle
    /\ FlockIdle
    /\ ReplanIdle
    /\ \E d \in Delays : DelayLineNew(d)
NextDelay == Enqueue \/ Deliver
SpecDelay == InitDelay /\ [][NextDelay]_vars

InitAlloc == NeuronNew /\ StdpIdle /\ SynapseIdle /\ DelayIdle /\ AllocIdle /\ RankIdle
    /\ SwarmCollectiveNew
    /\ RewardLearnerNew /\ SwarmRewardPoolNew
    /\ SnnIdle
    /\ LayerIdle
    /\ FlockIdle
    /\ ReplanIdle
NextAlloc == AddObjective \/ AddAgent \/ AllocateAgentsCall
SpecAlloc == InitAlloc /\ [][NextAlloc]_vars

InitRank ==
    /\ NeuronNew /\ StdpIdle /\ SynapseIdle /\ DelayIdle /\ RankIdle
    /\ SwarmCollectiveNew
    /\ RewardLearnerNew /\ SwarmRewardPoolNew
    /\ SnnIdle
    /\ LayerIdle
    /\ FlockIdle
    /\ ReplanIdle
    /\ objectives \in ObjectiveLists(MaxRanked)
    /\ agents = {}
    /\ allocation = EmptyMap
    /\ inserts = <<>>
    /\ allocated = FALSE
NextRank == PrioritizeObjectivesCall
SpecRank == InitRank /\ [][NextRank]_vars

InitCollective ==
    /\ NeuronNew /\ StdpIdle /\ SynapseIdle /\ DelayIdle /\ AllocIdle /\ RankIdle
    /\ SwarmCollectiveNew
    /\ RewardLearnerNew /\ SwarmRewardPoolNew
    /\ SnnIdle
    /\ LayerIdle
    /\ FlockIdle
    /\ ReplanIdle
NextConsensus == AddVoter \/ ConsensusMajorityCall
SpecConsensus == InitCollective /\ [][NextConsensus]_vars

NextCollective == AddPlacedAgent \/ UpdateCentroidCall \/ CalculateCohesionCall \/ Step
SpecCollective == InitCollective /\ [][NextCollective]_vars

InitReward ==
    /\ NeuronNew /\ StdpIdle /\ SynapseIdle /\ DelayIdle /\ AllocIdle /\ RankIdle
    /\ SwarmCollectiveNew
    /\ RewardLearnerNew /\ SwarmRewardPoolNew
    /\ SnnIdle
    /\ LayerIdle
    /\ FlockIdle
    /\ ReplanIdle
NextLearner == ReceiveRewardCall \/ StartNewEpisodeCall
SpecLearner == InitReward /\ [][NextLearner]_vars

InitReplan ==
    /\ NeuronNew /\ StdpIdle /\ SynapseIdle /\ DelayIdle /\ RankIdle
    /\ SwarmCollectiveNew
    /\ RewardLearnerNew /\ SwarmRewardPoolNew
    /\ SnnIdle
    /\ LayerIdle
    /\ FlockIdle
    /\ objectives \in ReplanObjectiveLists(MaxObjectives)
    /\ agents = AgentIds
    /\ allocation = EmptyMap
    /\ inserts = <<>>
    /\ allocated = FALSE
    /\ replan_call = [called |-> FALSE, collective |-> <<>>, before |-> <<>>]
    /\ replan_initial = objectives
    /\ n_replans = 0
NextReplan == ReplanIfNeededCall
SpecReplan == InitReplan /\ [][NextReplan]_vars

InitFlock ==
    /\ NeuronNew /\ StdpIdle /\ SynapseIdle /\ DelayIdle /\ AllocIdle /\ RankIdle
    /\ SwarmCollectiveNew
    /\ RewardLearnerNew /\ SwarmRewardPoolNew
    /\ SnnIdle
    /\ LayerIdle
    /\ ReplanIdle
    /\ FlockIdle
NextFlock == AddFlockAgent \/ LocalAlignmentCall \/ LocalSeparationCall
SpecFlock == InitFlock /\ [][NextFlock]_vars

\* a unit that has just spiked, its last spike on record at a finite time, as
\* test_lif_neuron_refractory sets it up; the observers count from that spike
LastSpikeTimes == {0, 3, 10}
InitRefractory ==
    /\ membrane_potential = RestPotential
    /\ \E t \in LastSpikeTimes : last_spike_time_ms = Fin(t)
    /\ spiked = FALSE
    /\ clock = 0
    /\ spike_at = 0
    /\ prev_spike_at = -1
    /\ test_i = 0
    /\ StdpIdle /\ SynapseIdle /\ DelayIdle /\ AllocIdle /\ RankIdle
    /\ SwarmCollectiveNew
    /\ RewardLearnerNew /\ SwarmRewardPoolNew
    /\ SnnIdle
    /\ LayerIdle
    /\ ReplanIdle
    /\ FlockIdle
NextRefractory == Integrate
SpecRefractory == InitRefractory /\ [][NextRefractory]_vars

InitLayer ==
    /\ NeuronNew /\ StdpIdle /\ SynapseIdle /\ DelayIdle /\ AllocIdle /\ RankIdle
    /\ SwarmCollectiveNew
    /\ RewardLearnerNew /\ SwarmRewardPoolNew
    /\ SnnIdle
    /\ ReplanIdle
    /\ FlockIdle
    /\ LayerIdle
NextLayer == InjectCurrent \/ LayerStep \/ LayerReset
SpecLayer == InitLayer /\ [][NextLayer]_vars

InitSnn ==
    /\ NeuronNew /\ StdpIdle /\ SynapseIdle /\ DelayIdle /\ AllocIdle /\ RankIdle
    /\ SwarmCollectiveNew
    /\ RewardLearnerNew /\ SwarmRewardPoolNew
    /\ ReplanIdle
    /\ FlockIdle
    /\ LayerIdle
    /\ SnnIdle
NextSnn == SupplySensors \/ SnnDecisionCall
SpecSnn == InitSnn /\ [][NextSnn]_vars

NextPool == RegisterLearner \/ RewardAgentCall \/ DistributeSharedRewardCall
SpecPool == InitReward /\ [][NextPool]_vars

(* C1: no two spikes of one unit are reported less than refractory_period_ms
   apart in accumulated time *)
C1_NoSpikeWithinRefractory ==
    (spike_at # -1 /\ prev_spike_at # -1)
        => spike_at - prev_spike_at >= RefractoryPeriodMs

(* C2: the default unit driven by integrate(0.1, 1.0) has reported a spike
   when the 100-step loop ends *)
C2_SpikeWithin100Steps == TestDone => spiked

(* C3: a call that reports a spike leaves the potential at rest and the
   last-spike time at the time of the call; the potential is never above
   threshold after a call *)
C3_SpikeResetsAndStamps ==
    /\ spiked => /\ membrane_potential = RestPotential
                 /\ last_spike_time_ms = Fin(clock)
    /\ membrane_potential <= Threshold

(* C4: a weight in [-1, 1] stays in [-1, 1] after any sequence of
   update_weight calls, for every learning rate *)
C4_WeightInRange ==
    /\ current_weight >= -WeightUnit
    /\ current_weight <= WeightUnit

\* an update with a rate >= 1 that was clipped at the upper bound
C4_Witness ==
    /\ n_updates > 0
    /\ params.learning_rate >= 1000
    /\ kernel_call.dw > 0
    /\ current_weight = WeightUnit

(* C5: compute_weight_change(dt) is positive for 0 < dt < positive_window,
   negative for dt < 0 with |dt| < negative_window, and zero for every other
   dt, dt = 0 included *)
C5_KernelSign ==
    kernel_call.called =>
        LET dt == kernel_call.dt
            inPos == 0 < dt /\ dt < params.positive_window_ms
            inNeg == dt < 0 /\ -dt < params.negative_window_ms
        IN  /\ inPos => kernel_call.dw > 0
            /\ inNeg => kernel_call.dw < 0
            /\ (~inPos /\ ~inNeg) => kernel_call.dw = 0

(* C6: the current transmit returns is never negative for an excitatory link
   and never positive for an inhibitory one, and polarity never changes *)
C6_TransmitSignByPolarity ==
    /\ transmitted.syn # 0 =>
          LET syn == synapses[transmitted.syn]
          IN  /\ syn.is_excitatory => transmitted.current >= 0
              /\ ~syn.is_excitatory => transmitted.current <= 0
    /\ Polarities(synapses) = created_excitatory

(* C7 as stated: when any deliver(t) returns, the queue holds no entry whose
   tagged time is <= t *)
C7_DeliverReleasesAllDue ==
    last_op = "deliver" => \A i \in 1 .. Len(events) : events[i].time > current_time_ms

(* C7 amended: the same, provided no deliver call so far was given a time
   earlier than the line's clock (0 at creation, then the previous deliver time) *)
C7_DeliverReleasesAllDueMonotone ==
    (last_op = "deliver" /\ monotone) =>
        \A i \in 1 .. Len(events) : events[i].time > current_time_ms

\* a deliver on a forward-moving clock that released two entries and kept one
C7_Witness ==
    /\ last_op = "deliver"
    /\ monotone
    /\ Len(delivered) >= 2
    /\ delivered[Len(delivered)].at = current_time_ms
    /\ delivered[Len(delivered) - 1].at = current_time_ms
    /\ Len(events) >= 1

(* C8: an entry enqueued at clock T is released by no deliver(t) with
   t < T + delay_ms, is released at most once, and entries leave the queue in
   the order they were enqueued *)
C8_NotEarlyOnceInOrder ==
    /\ \A i \in 1 .. Len(delivered) :
          delivered[i].at >= delivered[i].enqueued_at + delay_ms
    /\ \A i, j \in 1 .. Len(delivered) : i < j => delivered[i].id < delivered[j].id
    /\ \A i \in 1 .. Len(delivered), j \in 1 .. Len(events) :
          delivered[i].id < events[j].id

\* entries released by two different deliver calls while another still waits
C8_Witness ==
    /\ delay_ms > 0
    /\ Len(delivered) >= 2
    /\ delivered[1].at < delivered[2].at
    /\ Len(events) >= 1

\* number of agents the returned map assigns to the objective with this id
AssignedTo(id) ==
    Cardinality({a \in DOMAIN allocation : allocation[a].objective_id = id})

\* sum of resources_required over the first n stored objectives
RECURSIVE RequiredSum(_)
RequiredSum(n) ==
    IF n = 0 THEN 0 ELSE objectives[n].resources_required + RequiredSum(n - 1)

(* C9: the returned map gives no objective more agents than it requires, no
   agent is assigned twice in one pass, and every assigned agent is in the
   collective *)
C9_AllocationWithinRequired ==
    allocated =>
        /\ \A k \in 1 .. Len(objectives) :
              AssignedTo(objectives[k].objective_id) <= objectives[k].resources_required
        /\ \A i, j \in 1 .. Len(inserts) : i # j => inserts[i].agent # inserts[j].agent
        /\ DOMAIN allocation \subseteq agents

\* two objectives each received agents and an agent was left over
C9_Witness ==
    /\ allocated
    /\ Len(objectives) >= 2
    /\ \E k, l \in 1 .. Len(objectives) :
          /\ k # l
          /\ AssignedTo(objectives[k].objective_id) >= 1
          /\ AssignedTo(objectives[l].objective_id) >= 1
    /\ DOMAIN allocation # agents

\* objective i is ranked before objective j: higher urgency, or equal urgency
\* and added earlier
RankedBefore(i, j) ==
    \/ UrgencyLt(objectives[j].urgency, objectives[i].urgency)
    \/ objectives[i].urgency = objectives[j].urgency /\ i < j

Min(a, b) == IF a < b THEN a ELSE b

(* C10: an objective receives an agent only if every objective ranked before
   it has its full required count, and the number of assigned agents is
   min(number of agents, sum of required counts) *)
C10_GreedyInRankOrder ==
    allocated =>
        /\ \A i, j \in 1 .. Len(objectives) :
              (RankedBefore(i, j) /\ AssignedTo(objectives[j].objective_id) > 0)
                  => AssignedTo(objectives[i].objective_id)
                         = objectives[i].resources_required
        /\ Cardinality(DOMAIN allocation)
               = Min(Cardinality(agents), RequiredSum(Len(objectives)))

\* the objective added second is ranked first and is filled; the agents run out
\* part-way through the other one
C10_Witness ==
    /\ allocated
    /\ Len(objectives) >= 2
    /\ UrgencyLt(objectives[1].urgency, objectives[2].urgency)
    /\ objectives[2].resources_required >= 1
    /\ AssignedTo(objectives[2].objective_id) = objectives[2].resources_required
    /\ AssignedTo(objectives[1].objective_id) >= 1
    /\ AssignedTo(objectives[1].objective_id) < objectives[1].resources_required

\* the place of a ranked entry in the stored list
StoredIndex(o) == CHOOSE k \in DOMAIN objectives : objectives[k] = o

(* C11: the list prioritize_objectives returns holds every stored objective
   exactly once, in non-increasing urgency order, objectives of equal urgency
   in the order they were added, and the stored list is as it was *)
C11_PrioritizeStableDescending ==
    prioritized =>
        /\ Len(ranking) = Len(objectives)
        /\ \A k \in DOMAIN objectives :
               Cardinality({i \in DOMAIN ranking : ranking[i] = objectives[k]}) = 1
        /\ \A i, j \in DOMAIN ranking :
               i < j => /\ ~UrgencyLt(ranking[i].urgency, ranking[j].urgency)
                        /\ (ranking[i].urgency = ranking[j].urgency
                              => StoredIndex(ranking[i]) < StoredIndex(ranking[j]))
        /\ objectives = stored_before

\* a tie and a reordering in one call: urgencies 0.25, 0.75, 0.75 come back as
\* 0.75, 0.75, 0.25
C11_Witness ==
    /\ prioritized
    /\ Len(objectives) = 3
    /\ objectives[1].urgency = Quarter /\ objectives[2].urgency = ThreeQuarters
    /\ objectives[3].urgency = ThreeQuarters
    /\ ranking[1].objective_id = 2 /\ ranking[2].objective_id = 3
    /\ ranking[3].objective_id = 1

\* the agents of the collective whose task priority lies in lo .. hi
VotersBetween(lo, hi) ==
    {id \in DOMAIN collective_agents :
        /\ collective_agents[id].snn_state.task_priority >= lo
        /\ collective_agents[id].snn_state.task_priority <= hi}

MinPriority == 0
MaxPriority == 100
ExploreVoters == Cardinality(VotersBetween(RetreatBelow, ConcentrateAbove))
ConcentrateVoters == Cardinality(VotersBetween(ConcentrateAbove + 1, MaxPriority))
RetreatVoters == Cardinality(VotersBetween(MinPriority, RetreatBelow - 1))

(* C12: consensus_majority counts priorities above 0.7 as concentrate, below 0.3
   as retreat and all others as explore, and stores the decision of the largest
   count; on a tie Explore wins over Concentrate and Concentrate over Retreat *)
C12_MajorityWithTieOrder ==
    coll_op = "consensus_majority" =>
        consensus_decision =
            IF ExploreVoters >= ConcentrateVoters /\ ExploreVoters >= RetreatVoters
                THEN "Explore"
            ELSE IF ConcentrateVoters >= RetreatVoters THEN "Concentrate"
            ELSE "Retreat"

\* a three-way tie: one agent above 0.7, one below 0.3 and one at exactly 0.7,
\* which counts as explore; the decision is Explore
C12_Witness ==
    /\ coll_op = "consensus_majority"
    /\ ConcentrateVoters = RetreatVoters /\ ExploreVoters = ConcentrateVoters
    /\ ExploreVoters = 1
    /\ \E id \in DOMAIN collective_agents :
           collective_agents[id].snn_state.task_priority = ConcentrateAbove
    /\ consensus_decision = "Explore"

\* every collective over the voter ids, as a map from id to task priority
PriorityMaps == UNION {[ids -> TaskPriorities] : ids \in SUBSET VoterIds}

VotersOf(priority_map) ==
    [id \in DOMAIN priority_map |->
        [SwarmAgentNew(id) EXCEPT !.snn_state.task_priority = priority_map[id]]]

\* the two hold the same multiset of task priorities
SamePriorities(priority_map, agent_map) ==
    \A p \in TaskPriorities :
        Cardinality({id \in DOMAIN priority_map : priority_map[id] = p})
        = Cardinality({id \in DOMAIN agent_map :
                         agent_map[id].snn_state.task_priority = p})

(* C13: the decision consensus_majority stores depends on the multiset of task
   priorities only: every collective holding the same multiset, under whatever
   agent ids and in whatever order its map yields them, gets the same decision *)
C13_DecisionOfMultisetOnly ==
    coll_op = "consensus_majority" =>
        \A priority_map \in PriorityMaps :
            SamePriorities(priority_map, collective_agents) =>
                \A order \in Enumerations(DOMAIN priority_map) :
                    ConsensusMajority(VotersOf(priority_map), order) = consensus_decision

\* two agents below 0.3 and one above 0.7: Retreat whichever agent comes first
C13_Witness ==
    /\ coll_op = "consensus_majority"
    /\ Cardinality(DOMAIN collective_agents) = 3
    /\ RetreatVoters = 2 /\ ConcentrateVoters = 1
    /\ consensus_decision = "Retreat"

(* C14: consensus_majority never stores Wait, whatever the collective holds,
   the empty collective included *)
C14_NeverWait ==
    coll_op = "consensus_majority" =>
        consensus_decision \in {"Explore", "Concentrate", "Retreat"}

\* the empty collective, and a call on it
C14_Witness ==
    /\ coll_op = "consensus_majority"
    /\ DOMAIN collective_agents = {}
    /\ consensus_decision = "Explore"

\* the sum of the finite values v[id] over the set ids
RECURSIVE SumOver(_, _)
SumOver(ids, v) ==
    IF ids = {} THEN 0
    ELSE LET id == CHOOSE x \in ids : TRUE
         IN  v[id] + SumOver(ids \ {id}, v)

\* m is the mean of a sum over n values, floored to the unit
IsMean(m, sum, n) == n * m <= sum /\ sum < n * m + n

\* c is the f64 mean of the coordinates x[id]: NaN if one of them is NaN
IsMeanOfCoordinates(c, x) ==
    IF \E id \in DOMAIN x : x[id].k = "nan" THEN c.k = "nan"
    ELSE /\ c.k = "fin"
         /\ IsMean(c.v, SumOver(DOMAIN x, [id \in DOMAIN x |-> x[id].v]),
                   Cardinality(DOMAIN x))

(* C15: after update_centroid on a collective of N >= 1 agents the centroid
   latitude and longitude are the arithmetic means of the agents' latitudes and
   longitudes and average_arousal is the mean of their arousal levels *)
C15_CentroidIsMean ==
    (coll_op \in {"update_centroid", "step"} /\ DOMAIN collective_agents # {}) =>
        LET ids == DOMAIN collective_agents
        IN  /\ IsMeanOfCoordinates(coordination_state.centroid_lat,
                                   [id \in ids |-> collective_agents[id].position[1]])
            /\ IsMeanOfCoordinates(coordination_state.centroid_lon,
                                   [id \in ids |-> collective_agents[id].position[2]])
            /\ IsMean(coordination_state.average_arousal,
                      SumOver(ids, [id \in ids |->
                                      collective_agents[id].snn_state.arousal_level]),
                      Cardinality(ids))

\* agents at (33.0, -112.0) and (33.1, -112.1): centroid (33.05, -112.05)
C15_Witness ==
    /\ coll_op = "update_centroid"
    /\ Cardinality(DOMAIN collective_agents) = 2
    /\ {collective_agents[id].position : id \in DOMAIN collective_agents}
           = {<<Fin(33000), Fin(-112000), Fin(0)>>, <<Fin(33100), Fin(-112100), Fin(0)>>}
    /\ coordination_state.centroid_lat = Fin(33050)
    /\ coordination_state.centroid_lon = Fin(-112050)
    /\ coordination_state.average_arousal = 40

(* C16: in every reachable state of a collective, after creation and any
   sequence of add_agent, update_centroid, calculate_cohesion and step,
   group_cohesion lies in [0, 1] *)
C16_CohesionInUnitInterval ==
    /\ coordination_state.group_cohesion.k = "fin"
    /\ coordination_state.group_cohesion.v >= 0
    /\ coordination_state.group_cohesion.v <= ExpUnit

(* C17: on a collective that has no agents, update_centroid and
   calculate_cohesion leave every field of the coordination state (centroid,
   average arousal, group cohesion) as it was *)
C17_EmptyCollectiveUntouched ==
    (DOMAIN collective_agents = {} /\ n_steps = 0) =>
        coordination_state = CoordinationStateNew

\* the signed value of a signal: a penalty counts as minus its amount
SignedValue(reward) == IF reward.kind = "Penalty" THEN 0 - reward.v ELSE reward.v

\* the signed values of the signals from + 1 .. Len(reward_history), in order
SignedSince(from) ==
    [i \in 1 .. Len(reward_history) - from |-> SignedValue(reward_history[from + i])]

RECURSIVE SumSeq(_)
SumSeq(q) == IF q = <<>> THEN 0 ELSE Head(q) + SumSeq(Tail(q))

(* C18: after any sequence of receive_reward and start_new_episode calls,
   cumulative_reward is the sum of the signed values of all rewards received
   since creation (a penalty counts as minus its amount), and episode_rewards
   holds, in order, the signed values received since the last
   start_new_episode *)
C18_CumulativeAndEpisode ==
    /\ learner.cumulative_reward = SumSeq(SignedSince(0))
    /\ learner.episode_rewards = SignedSince(episode_start)

\* a penalty before and a reward and a penalty after an episode start
C18_Witness ==
    /\ Len(reward_history) = 3
    /\ episode_start = 1
    /\ reward_history[1].kind = "Penalty"
    /\ reward_history[2].kind = "WildlifeReturn"
    /\ reward_history[3].kind = "Penalty"
    /\ Len(learner.episode_rewards) = 2
    /\ learner.cumulative_reward < 0

(* C19: start_new_episode empties episode_rewards and leaves cumulative_reward,
   value_estimate, learning_rate, discount_factor and agent_id as they were *)
C19_NewEpisodeClearsOnlyEpisode ==
    learner_op = "start_new_episode" =>
        /\ learner.episode_rewards = <<>>
        /\ learner.cumulative_reward = learner_before.cumulative_reward
        /\ learner.value_estimate = learner_before.value_estimate
        /\ learner.learning_rate = learner_before.learning_rate
        /\ learner.discount_factor = learner_before.discount_factor
        /\ learner.agent_id = learner_before.agent_id

\* an episode of two rewards is closed; the total and the estimate have moved
C19_Witness ==
    /\ learner_op = "start_new_episode"
    /\ Len(learner_before.episode_rewards) = 2
    /\ learner.cumulative_reward # 0
    /\ learner.value_estimate # InitialValueEstimate

(* C20: reward_agent with an id that is not registered changes nothing: no
   learner is created or changed and collective_reward stays; with a registered
   id it updates that learner and no other *)
C20_RewardAgentTouchesOnlyRegistered ==
    pool_op.op = "reward_agent" =>
        LET before == pool_before.individual_learners
            id == pool_op.agent_id
        IN  IF id \notin DOMAIN before
            THEN /\ individual_learners = before
                 /\ collective_reward = pool_before.collective_reward
            ELSE /\ DOMAIN individual_learners = DOMAIN before
                 /\ \A other \in DOMAIN before \ {id} :
                        individual_learners[other] = before[other]
                 /\ individual_learners[id].episode_rewards
                        = Append(before[id].episode_rewards, SignedValue(pool_op.reward))

\* a pool with one learner is asked to reward the id that is not registered
C20_Witness ==
    /\ pool_op.op = "reward_agent"
    /\ DOMAIN individual_learners # {}
    /\ pool_op.agent_id \notin DOMAIN individual_learners
    /\ \E id \in DOMAIN individual_learners :
           individual_learners[id].episode_rewards # <<>>

(* C21: distribute_shared_reward with signed value r on a pool of N >= 1
   learners adds r to collective_reward and delivers one reward of r / N to
   every registered learner, so that the cumulative rewards rise by r in total;
   on an empty pool no learner appears or changes *)
C21_SharedRewardSplitEqually ==
    pool_op.op = "distribute_shared_reward" =>
        LET before == pool_before.individual_learners
            r == SignedValue(pool_op.reward)
            n == Cardinality(DOMAIN before)
        IN  /\ collective_reward = pool_before.collective_reward + r
            /\ DOMAIN individual_learners = DOMAIN before
            /\ \A id \in DOMAIN before :
                   LET share == individual_learners[id].cumulative_reward
                                  - before[id].cumulative_reward
                   IN  /\ IsMean(share, r, n)
                       /\ individual_learners[id].episode_rewards
                              = Append(before[id].episode_rewards, share)

\* a penalty of 2.5 shared by two learners, one of whom was rewarded before
C21_Witness ==
    /\ pool_op.op = "distribute_shared_reward"
    /\ pool_op.reward.kind = "Penalty"
    /\ Cardinality(DOMAIN individual_learners) = 2
    /\ \A id \in DOMAIN individual_learners :
           individual_learners[id].cumulative_reward
               = pool_before.individual_learners[id].cumulative_reward
                 - (5 * RewardUnit) \div 4
    /\ \E id \in DOMAIN individual_learners :
           Len(individual_learners[id].episode_rewards) = 2

(* C23: a mission objective whose required agent count is zero is rejected
   when it is supplied, so the decision system never stores such an objective
   and allocate_agents never ranks one *)
C23_ZeroRequiredRejected ==
    \A i \in 1 .. Len(objectives) : objectives[i].resources_required >= 1

\* the collective of the last replan_if_needed call meets one of the three
\* conditions of the specification
C22_Trigger ==
    LET c == replan_call.collective
        cohesion == c.coordination_state.group_cohesion
    IN  \/ cohesion.k = "-inf"
        \/ cohesion.k = "fin" /\ cohesion.v < 30000
        \/ c.coordination_state.average_arousal < 20
        \/ {id \in DOMAIN c.agents :
               c.agents[id].local_sensor_data.threats_detected # 0} # {}

(* C22 as stated: replan_if_needed changes the objectives if and only if the
   collective has cohesion < 0.3, or average arousal < 0.2, or an agent with a
   nonzero threat count *)
C22_ChangesIffTriggered ==
    replan_call.called => ((objectives # replan_call.before) <=> C22_Trigger)

(* C22, amended: replan_if_needed changes the objectives only if the
   collective has cohesion < 0.3, or average arousal < 0.2, or an agent with a
   nonzero threat count; when one of these holds the urgency of exactly the
   objectives whose urgency is below 0.5 is multiplied by 0.5, and nothing
   else changes: not the other objectives, not the number of objectives, not
   a field other than urgency *)
C22_HalvesExactlyTheLowOnes ==
    replan_call.called =>
        /\ Len(objectives) = Len(replan_call.before)
        /\ \A i \in DOMAIN objectives :
              LET old == replan_call.before[i]
              IN  /\ [objectives[i] EXCEPT !.urgency = old.urgency] = old
                  /\ objectives[i].urgency
                         = IF C22_Trigger /\ UrgencyLt(old.urgency, Half)
                           THEN UrgencyHalved(old.urgency)
                           ELSE old.urgency

\* two calls, the second triggered by a threat count alone: the objective that
\* began at 0.25 is at 0.0625, the one at 0.75 is as it was
C22_Witness ==
    /\ replan_call.called
    /\ n_replans = 2
    /\ replan_call.collective.coordination_state.group_cohesion = Fin(LowCohesion)
    /\ replan_call.collective.coordination_state.average_arousal = LowArousal
    /\ Len(objectives) = 2
    /\ replan_initial[1].urgency = Quarter
    /\ replan_call.before[1].urgency = Dyadic(1, -3)
    /\ objectives[1].urgency = Dyadic(1, -4)
    /\ objectives[2].urgency = ThreeQuarters

\* the objective ids in the order prioritize_objectives returns them
RankedIds(objs) ==
    LET ranked == PrioritizeObjectives(objs)
    IN  [i \in DOMAIN ranked |-> ranked[i].objective_id]

\* the objective id allocate_agents gives each agent
AllocatedIds(objs, agent_ids) ==
    LET map == AllocateAgents(objs, agent_ids).allocation
    IN  [a \in DOMAIN map |-> map[a].objective_id]

\* prioritize_objectives and allocate_agents give for the current objectives
\* what they gave for the objectives before the first replan_if_needed call
SameOrderAndAllocation ==
    /\ RankedIds(objectives) = RankedIds(replan_initial)
    /\ \A agent_ids \in Enumerations(agents) :
           AllocatedIds(objectives, agent_ids) = AllocatedIds(replan_initial, agent_ids)

(* C29 as stated: after any sequence of replan_if_needed calls
   prioritize_objectives returns the objectives in the order it returned them
   before the calls, and allocate_agents assigns the same agents to the same
   objective ids *)
C29_ReplanKeepsOrder == SameOrderAndAllocation

\* no halving so far was rounded: every urgency still has the mantissa it began with
HalvingsExact ==
    \A i \in DOMAIN objectives : objectives[i].urgency.m = replan_initial[i].urgency.m

(* C29, amended: as long as no replan_if_needed call has halved an urgency that
   is an odd multiple of 2^-1074, so that every halving was exact, the order
   prioritize_objectives returns and the allocation allocate_agents returns
   are what they were before the calls *)
C29_ExactReplanKeepsOrder == HalvingsExact => SameOrderAndAllocation

\* two triggered calls on urgencies 0.25 and 0.375: the objective added second
\* is still ranked first
C29_Witness ==
    /\ n_replans = 2
    /\ Len(objectives) = 2
    /\ replan_initial[1].urgency = Quarter
    /\ replan_initial[2].urgency = Dyadic(3, -3)
    /\ objectives[1].urgency = Dyadic(1, -4)
    /\ objectives[2].urgency = Dyadic(3, -5)
    /\ RankedIds(objectives) = <<2, 1>>

\* the distance in metres between two agents of the map the last flocking call
\* began with
DistanceBefore(a, b) ==
    DistKm(FSub(flock_before[a].position[1], flock_before[b].position[1]),
           FSub(flock_before[a].position[2], flock_before[b].position[2]))

\* 0.8 * own + 0.2 * mean heading of the agent and its neighbours, all headings
\* taken from the map the call began with
TwoPhaseHeading(id) ==
    LET near == {other \in DOMAIN flock_before \ {id} :
                    /\ DistanceBefore(other, id).k = "fin"
                    /\ DistanceBefore(other, id).v < flock_arg}
        headings == [a \in DOMAIN flock_before |-> flock_before[a].heading]
        mean == SumOver(near \cup {id}, headings) \div (Cardinality(near) + 1)
    IN  IF near = {} THEN flock_before[id].heading
        ELSE (8 * flock_before[id].heading + 2 * mean) \div 10

(* C24: after local_alignment every agent's heading is the one computed from
   the headings all agents had when the call began, whatever the order in
   which the agents were processed *)
C24_AlignmentIsTwoPhase ==
    coll_op = "local_alignment" =>
        \A id \in DOMAIN collective_agents :
            collective_agents[id].heading = TwoPhaseHeading(id)

\* the agents that were nearer to agent id than the minimum distance and
\* farther than 0.001 km when the call began
TooClose(id) ==
    {other \in DOMAIN flock_before \ {id} :
        /\ DistanceBefore(id, other).k = "fin"
        /\ DistanceBefore(id, other).v < flock_arg
        /\ DistanceBefore(id, other).v > MinSeparation}

\* the repulsion terms of the agents of TooClose(id) in coordinate c, by agent
RepulsionTerms(id, c) ==
    [other \in TooClose(id) |->
        ((flock_before[id].position[c].v - flock_before[other].position[c].v)
            * RepulsionScale) \div (DistanceBefore(id, other).v * DistanceBefore(id, other).v)]

(* C27: local_separation changes agent velocities only: the agent set, and
   every position, heading and other field, are as before; the horizontal
   velocity of an agent changes by 0.1 times the sum of the repulsion terms of
   the agents nearer than min_distance_km and farther than 0.001 km, so an
   agent with no such agent keeps its velocity *)
C27_SeparationChangesVelocityOnly ==
    coll_op = "local_separation" =>
        /\ DOMAIN collective_agents = DOMAIN flock_before
        /\ \A id \in DOMAIN collective_agents :
              LET now == collective_agents[id]
                  old == flock_before[id]
              IN  /\ [now EXCEPT !.velocity = old.velocity] = old
                  /\ now.velocity[3] = old.velocity[3]
                  /\ \A c \in {1, 2} :
                        now.velocity[c] - old.velocity[c]
                            = SumOver(TooClose(id), RepulsionTerms(id, c))
                                  \div RepulsionGainDivisor
                  /\ TooClose(id) = {} => now.velocity = old.velocity

\* two agents 555 m apart called with a minimum distance of 1 km and then of
\* 500 m: the first call pushed them apart, the second left the velocities alone
C27_Witness ==
    /\ coll_op = "local_separation"
    /\ n_flock = 2
    /\ flock_arg = 500
    /\ DOMAIN collective_agents = {1, 2}
    /\ collective_agents[1].position[1] = Fin(33005)
    /\ collective_agents[2].position[1] = Fin(33000)
    /\ collective_agents[1].velocity[1] > 0
    /\ collective_agents[2].velocity[1] < 0
    /\ collective_agents = flock_before

(* C25: when step returns, the centroid is the mean of the positions the
   agents have after this step's movement, the group cohesion is the one
   computed from those positions against that centroid, and the consensus is
   the majority decision of the agents' current task priorities *)
C25_StepMovesThenAggregates ==
    coll_op = "step" =>
        LET ids == DOMAIN collective_agents
        IN  /\ ids # {} =>
                /\ IsMeanOfCoordinates(coordination_state.centroid_lat,
                                       [id \in ids |-> collective_agents[id].position[1]])
                /\ IsMeanOfCoordinates(coordination_state.centroid_lon,
                                       [id \in ids |-> collective_agents[id].position[2]])
            /\ \A order \in Enumerations(ids) :
                   coordination_state.group_cohesion
                       = CalculateCohesion(coordination_state, collective_agents,
                                           order).group_cohesion
            /\ (consensus_decision = "Explore")
                   = (ExploreVoters >= ConcentrateVoters /\ ExploreVoters >= RetreatVoters)
            /\ (consensus_decision = "Retreat")
                   = (RetreatVoters > ConcentrateVoters /\ RetreatVoters > ExploreVoters)

\* a step of 10 s on the agent that moves north at 111 m/s from latitude 33.1:
\* it is at 33.11, and that is the centroid, with cohesion 1
C25_Witness ==
    /\ coll_op = "step"
    /\ Cardinality(DOMAIN collective_agents) = 1
    /\ \A id \in DOMAIN collective_agents :
           /\ collective_agents[id].velocity[1] = MetersPerDegree
           /\ collective_agents[id].position[1] = Fin(33110)
    /\ coordination_state.centroid_lat = Fin(33110)
    /\ coordination_state.group_cohesion = Fin(ExpUnit)

(* C26: for a unit whose last spike is at a finite time, an integrate call
   that ends when the time accumulated since that spike has reached the
   refractory period is not answered by the refractory branch (potential
   rest - 0.05, no spike): leaky integration has resumed *)
C26_RefractoryEndsAfterPeriod ==
    [][(/\ clock' # clock
        /\ last_spike_time_ms.k = "fin"
        /\ clock' - spike_at >= RefractoryPeriodMs)
          => ~(/\ membrane_potential' = RestPotential - Hyperpolarization
               /\ ~spiked'
               /\ last_spike_time_ms' = last_spike_time_ms)]_vars

(* C28: activity_level is the number of neurons of the layer that have
   reported a spike from step since the layer was created or last reset: 0 on
   a fresh or reset layer, at least 1 after a step that returned spikes *)
C28_ActivityCountsSpikedNeurons ==
    ActivityLevel(layer_neurons) = Cardinality(ever_spiked)

(* C30: after snn_decision the agent's task priority lies in [0, 1] *)
C30_TaskPriorityInUnitInterval ==
    snn_action # "none" =>
        /\ snn_agent.snn_state.task_priority.k = "fin"
        /\ snn_agent.snn_state.task_priority.v >= 0
        /\ snn_agent.snn_state.task_priority.v <= DecisionUnit

====
